---------------------------- MODULE Spec2Model ----------------------------
(*
  A model of arthurc/armos, extract-assets: the segmented address resolver
  and structure reader (rom.rs, addr.rs), the display-list decoders
  (display_list.rs + mesh.rs, and the earlier dlist.rs + dlist/gltf.rs),
  the skin deformation (skeleton.rs, and the earlier skin/gltf.rs), the
  animation decoder (skeleton_animation.rs, and the earlier
  skin/skeleton.rs) and the extraction of a skeleton (skeleton.rs
  read_into_gltf, and the earlier main.rs with skin.rs and skin/gltf.rs).

  Representation.  TLC's integers are 32-bit signed, so a u32 address is
  kept as the pair [hi |-> bits 24..31, lo |-> bits 0..23] and a u64
  instruction word as its 8 big-endian bytes; every shift and mask of the
  source is computed on that representation.  A byte buffer is a sequence of
  0..255, a slice &data[o..] is the sequence SubSeq(data, o + 1, Len(data)).
  A call's outcome is a record [tag, err, val]: tag "Ok" with the value,
  tag "Err" with the error, or tag "Panic" when the code panics.
*)
EXTENDS Integers, Sequences, FiniteSets, TLC

VARIABLES
    segments,   \* rom.rs Reader.segments: [Option<Vec<u8>>; 16]
    last,       \* the caller's view of the latest Reader call: its arguments and outcome
    dl,         \* a display-list run: the instruction stream, the interpreter, the mesh
    tri,        \* a decoded TRI1 or TRI2 instruction word and its indices
    skin,       \* an animated limb's vertex buffer under its limb modifications
    anim,       \* an animation being decoded frame by frame
    ext         \* a skeleton extraction run twice

vars == <<segments, last, dl, tri, skin, anim, ext>>

\* What the actions of each component leave alone
ReaderFrame == <<dl, tri, skin, anim, ext>>

DLFrame == <<segments, last, tri, skin, anim, ext>>

AnimFrame == <<segments, last, dl, tri, skin, ext>>

ExtFrame == <<segments, last, dl, tri, skin, anim>>

-----------------------------------------------------------------------------
(* Outcomes *)

Ok(v) == [tag |-> "Ok", err |-> "", val |-> v]

Err(e) == [tag |-> "Err", err |-> e, val |-> <<>>]

Panic == [tag |-> "Panic", err |-> "", val |-> <<>>]

-----------------------------------------------------------------------------
(* addr.rs: RawVirtAddr *)

\* 2^24, the size of the low part of the address pair
LoSize == 16777216

U32(hi, lo) == [hi |-> hi, lo |-> lo]

\* RawVirtAddr::new on the big-endian bytes b0 b1 b2 b3 of a u32
AddrOfBytes(b) == U32(b[1], (b[2] * 65536) + (b[3] * 256) + b[4])

\* A variant of segment_number without the shift left: x >> 24
segment_number_noshift(a) == a.hi

\* (x << 4) >> 28 on a u32: the shift left drops bits 28..31, the shift right
\* keeps the top four bits of what is left.
segment_number(a) ==
    LET shifted_hi == ((a.hi * 16) + (a.lo \div 1048576)) % 256
    IN  shifted_hi \div 16

\* x & 0x00FFFFFF
segment_offset(a) == a.lo % LoSize

-----------------------------------------------------------------------------
(* rom.rs: Reader *)

NumSegments == 16

Object == 6

IconItemStatic == 8

None == [set |-> FALSE, data |-> <<>>]

Some(d) == [set |-> TRUE, data |-> d]

\* &data[o..]
SliceTail(data, o) == SubSeq(data, o + 1, Len(data))

\* A variant of slice_from that reads an unset slot as an empty buffer
slice_from_unset_empty(segs, addr) ==
    LET number == segment_number(addr)
        offset == segment_offset(addr)
        data == segs[number].data
    IN  IF offset > Len(data) THEN Panic ELSE Ok(SliceTail(data, offset))

\* Reader::slice_from
slice_from(segs, addr) ==
    LET number == segment_number(addr)
        offset == segment_offset(addr)
    IN  IF number \notin DOMAIN segs THEN Panic
        ELSE IF ~segs[number].set THEN Err("SegmentUnset")
        ELSE IF offset > Len(segs[number].data) THEN Panic
        ELSE Ok(SliceTail(segs[number].data, offset))

\* The address, modulo 4, of the first byte of the slice slice_from returns
SlicePtr(segs, addr) ==
    LET
        \* The address of the first byte of a Vec<u8>, modulo 4: an empty Vec holds the
        \* dangling pointer 1 (align_of::<u8>()), an allocated one is taken to be
        \* aligned to the allocator's minimum alignment.
        BasePtr(data) == IF Len(data) = 0 THEN 1 ELSE 0
    IN  (BasePtr(segs[segment_number(addr)].data) + segment_offset(addr)) % 4

\* A record type T of the reader is its layout: size_of::<T>() and align_of::<T>()
Layout(size, align) == [size |-> size, align |-> align]

\* The record types of rom.rs with size_of and align_of: a VirtAddr is a
\* U32<BigEndian>; SkinLimbModif and AnimationHeader hold an Aligned4,
\* SkinTransformation an Aligned2
LayoutOf ==
    [VirtAddr |-> Layout(4, 1),
     Vtx |-> Layout(16, 1),
     I16 |-> Layout(2, 1),
     JointIndex |-> Layout(6, 1),
     SkeletonHeader |-> Layout(5, 1),
     SkinLimb |-> Layout(16, 1),
     SkinAnimatedLimbData |-> Layout(12, 1),
     SkinLimbModif |-> Layout(16, 4),
     SkinTransformation |-> Layout(10, 2),
     SkinVertex |-> Layout(10, 1),
     AnimationHeader |-> Layout(16, 4)]

\* Reader::read
read(segs, addr, T) ==
    LET
        \* LayoutVerified::<_, T>::new_from_prefix: None when the bytes are too few or
        \* not aligned to T
        new_from_prefix(bytes, ptr) ==
            IF Len(bytes) < T.size \/ ptr % T.align # 0 THEN Err("None")
            ELSE Ok(SubSeq(bytes, 1, T.size))
        Verified(lv) == IF lv.tag # "Ok" THEN Err("FailedToRead") ELSE lv
        Slice(s) ==
            IF s.tag # "Ok" THEN s
            ELSE Verified(new_from_prefix(s.val, SlicePtr(segs, addr)))
    IN  Slice(slice_from(segs, addr))

\* Reader::read_slice
read_slice(segs, addr, T, count) ==
    LET
        \* LayoutVerified::<_, [T]>::new_slice_from_prefix: the first count records
        new_slice_from_prefix(bytes, ptr) ==
            IF Len(bytes) < T.size * count \/ ptr % T.align # 0 THEN Err("None")
            ELSE Ok([i \in 1..count |-> SubSeq(bytes, ((i - 1) * T.size) + 1, i * T.size)])
        Verified(lv) == IF lv.tag # "Ok" THEN Err("FailedToRead") ELSE lv
        Slice(s) ==
            IF s.tag # "Ok" THEN s
            ELSE Verified(new_slice_from_prefix(s.val, SlicePtr(segs, addr)))
    IN  Slice(slice_from(segs, addr))

\* Reader::ptr_slice_iter, with the iterator it returns collected
ptr_slice_iter(segs, addr, T, count) ==
    LET
        \* flat_map(|addr| self.read::<T>(*addr).into_iter()) over the table: an Ok
        \* read yields its record, an Err read yields nothing, a panicking read
        \* unwinds out of the iteration.
        RECURSIVE FlatMapRead(_)
        FlatMapRead(table) ==
            LET Yield(r, rest) ==
                    IF r.tag = "Panic" THEN Panic
                    ELSE IF rest.tag = "Panic" THEN Panic
                    ELSE IF r.tag = "Err" THEN rest
                    ELSE Ok(<<r.val>> \o rest.val)
            IN  IF table = <<>> THEN Ok(<<>>)
                ELSE Yield(read(segs, AddrOfBytes(Head(table)), T), FlatMapRead(Tail(table)))
        Table(table) == IF table.tag # "Ok" THEN table ELSE FlatMapRead(table.val)
    IN  Table(read_slice(segs, addr, LayoutOf.VirtAddr, count))

\* Reader::set_segment
set_segment(segs, segment, data) == [segs EXCEPT ![segment] = data]

-----------------------------------------------------------------------------
(* addr.rs: Add<i32> *)

\* ((x as i64 + rhs as i64) as u32): the sum modulo 2^32, on the address pair
AddrAdd(a, rhs) ==
    LET sum == a.lo + rhs
    IN  U32((a.hi + (sum \div LoSize)) % 256, sum % LoSize)

-----------------------------------------------------------------------------
(* display_list.rs: Opcode, Instruction, InstructionStream, Vtx, Tri1, Tri2.
   An instruction word is its 8 big-endian bytes: w[1] holds bits 56..63,
   w[8] bits 0..7. *)

VTX == 1

TRI1 == 5

TRI2 == 6

ENDDL == 223

RDPPIPESYNC == 231

\* The discriminants of enum Opcode
KnownOpcodes ==
    {1, 5, 6, 215, 217, 223, 226, 227, 230, 231, 232, 240, 242, 243, 245, 250, 252, 253}

\* (word & (0xFF << shift)) >> shift
Extract8(w, shift) ==
    LET k == shift \div 8
        r == shift % 8
        lo == w[8 - k]
        hi == IF k = 7 THEN 0 ELSE w[7 - k]
    IN  (((hi * 256) + lo) \div (2 ^ r)) % 256

\* Instruction::opcode: self.0 >> 56 through Opcode::from_u64, a panic when it
\* is no discriminant
opcode(w) ==
    LET op == Extract8(w, 56)
    IN  IF op \in KnownOpcodes THEN Ok(op) ELSE Panic

\* Vtx::addr: RawVirtAddr::new(self.0 as u32)
Vtx_addr(w) == AddrOfBytes(SubSeq(w, 5, 8))

\* Vtx::nn
Vtx_nn(w) == Extract8(w, 44)

\* A halving that rounds up
TriHalf_round(x) == (x + 1) \div 2

\* the "/ 2" of Tri1 and Tri2
TriHalf(x) == x \div 2

\* Tri1::aa, bb, cc
Tri1_indices(w) ==
    <<TriHalf(Extract8(w, 48)), TriHalf(Extract8(w, 40)), TriHalf(Extract8(w, 32))>>

\* Tri2::aa, bb, cc, dd, ee, ff
Tri2_indices(w) ==
    <<TriHalf(Extract8(w, 48)), TriHalf(Extract8(w, 40)), TriHalf(Extract8(w, 32)),
      TriHalf(Extract8(w, 16)), TriHalf(Extract8(w, 8)), TriHalf(Extract8(w, 0))>>

\* A stream that keeps its rest after ENDDL
StreamAfter_rest(op, rest) == rest

\* What InstructionStream::next leaves in self.0 after an instruction
StreamAfter(op, rest) == IF op = ENDDL THEN <<>> ELSE rest

\* InstructionStream::next on self.0 = data: the item and the new self.0
StreamNext(data) ==
    IF Len(data) < 8 THEN [tag |-> "None", word |-> <<>>, rest |-> data]
    ELSE LET word == SubSeq(data, 1, 8)
             rest == SubSeq(data, 9, Len(data))
             op == opcode(word)
         IN  IF op.tag = "Panic" THEN [tag |-> "Panic", word |-> word, rest |-> data]
             ELSE [tag |-> "Some", word |-> word, rest |-> StreamAfter(op.val, rest)]

-----------------------------------------------------------------------------
(* mesh.rs: Vertex, Mesh, fold *)

\* I16::get on two big-endian bytes
I16Get(hi, lo) ==
    LET u == (hi * 256) + lo
    IN  IF u >= 32768 THEN u - 65536 ELSE u

\* Vertex::from(&rom::Vtx): pos is the first three I16 of the record
VertexFrom(rec) == <<I16Get(rec[1], rec[2]), I16Get(rec[3], rec[4]), I16Get(rec[5], rec[6])>>

\* A vertex_offset that is never advanced
VertexOffset_zero(vertices) == 0

\* The value vertex_offset takes at a VTX: the vertices already in the mesh
VertexOffsetAtVtx(vertices) == Len(vertices)

\* A load that starts the vertex list afresh
PushVertices_fresh(vertices, vtxs) == [i \in 1..Len(vtxs) |-> VertexFrom(vtxs[i])]

\* for vtx in vtxs { mesh.vertices.push(Vertex::from(vtx)) }
PushVertices(vertices, vtxs) == vertices \o [i \in 1..Len(vtxs) |-> VertexFrom(vtxs[i])]

\* The closure fold returns, applied to (mesh, instruction) with its captured
\* vertex_offset: the outcome, the mesh and the new vertex_offset
fold(segs, vertices, indices, vertex_offset, w) ==
    LET op == opcode(w).val
        keep == [tag |-> "Ok", err |-> "", vertices |-> vertices, indices |-> indices,
                 vertex_offset |-> vertex_offset]
    IN  IF op = VTX THEN
            LET off == VertexOffsetAtVtx(vertices)
                vtxs == read_slice(segs, Vtx_addr(w), LayoutOf.Vtx, Vtx_nn(w))
            IN  IF vtxs.tag = "Ok" THEN
                    [keep EXCEPT !.vertex_offset = off,
                                 !.vertices = PushVertices(vertices, vtxs.val)]
                ELSE IF vtxs.tag = "Err" THEN
                    [keep EXCEPT !.tag = "Err", !.err = "Could not read vertices",
                                 !.vertex_offset = off]
                ELSE [keep EXCEPT !.tag = "Panic", !.vertex_offset = off]
        ELSE IF op = TRI1 THEN
            [keep EXCEPT !.indices = indices \o
                 [i \in 1..3 |-> vertex_offset + Tri1_indices(w)[i]]]
        ELSE IF op = TRI2 THEN
            [keep EXCEPT !.indices = indices \o
                 [i \in 1..6 |-> vertex_offset + Tri2_indices(w)[i]]]
        ELSE keep

-----------------------------------------------------------------------------
(* dlist.rs and dlist/gltf.rs, the earlier decoder.  Its RomReader is not among
   the sources: seek, read_u64 and segment_iter are modelled from the
   resolver's contract. *)

\* RomReader: n bytes at an address, or the resolver's error
RomReaderBytes(segs, addr, n) ==
    LET number == addr.hi % 16
        offset == addr.lo
    IN  IF ~segs[number].set THEN Err("SegmentUnset")
        ELSE IF offset >= Len(segs[number].data) THEN Err("AddressOutOfRange")
        ELSE IF offset + n > Len(segs[number].data) THEN Err("Truncated")
        ELSE Ok(SubSeq(segs[number].data, offset + 1, offset + n))

\* r.seek(pos); r.read_u64()
read_u64(segs, pos) == RomReaderBytes(segs, pos, 8)

\* Vtx::SIZE
VtxSize == 16

\* Vtx::read: three read_i16, the rest defaulted
Vtx_read(segs, addr) ==
    LET b == RomReaderBytes(segs, addr, 6)
    IN  IF b.tag = "Ok" THEN Ok(VertexFrom(b.val)) ELSE b

\* r.segment_iter::<Vtx>(addr).take(n) pushed one by one with `?`: the
\* vertices, or the first error
RECURSIVE segment_iter_take(_, _, _)
segment_iter_take(segs, addr, n) ==
    IF n = 0 THEN Ok(<<>>)
    ELSE LET v == Vtx_read(segs, addr)
         IN  IF v.tag # "Ok" THEN v
             ELSE LET rest == segment_iter_take(segs, AddrAdd(addr, VtxSize), n - 1)
                  IN  IF rest.tag # "Ok" THEN rest ELSE Ok(<<v.val>> \o rest.val)

\* InstrIter::next at self.pos: Ok(None) at ENDDL, Ok(Some((opcode, data))),
\* or the error; read is whether an instruction word was read
InstrIter_next(segs, pos) ==
    LET
        \* Opcode::from_data
        from_data(w) ==
            LET op == Extract8(w, 56)
            IN  IF op \in KnownOpcodes THEN Ok(op) ELSE Err("Unknown opcode")
        data == read_u64(segs, pos)
        op == from_data(data.val)
    IN  IF data.tag # "Ok" THEN
            [tag |-> "Err", err |-> data.err, op |-> 0, word |-> <<>>, pos |-> pos, read |-> FALSE]
        ELSE IF op.tag # "Ok" THEN
            [tag |-> "Err", err |-> op.err, op |-> 0, word |-> data.val,
             pos |-> AddrAdd(pos, 8), read |-> TRUE]
        ELSE IF op.val = ENDDL THEN
            [tag |-> "None", err |-> "", op |-> op.val, word |-> data.val,
             pos |-> AddrAdd(pos, 8), read |-> TRUE]
        ELSE [tag |-> "Some", err |-> "", op |-> op.val, word |-> data.val,
              pos |-> AddrAdd(pos, 8), read |-> TRUE]

RECURSIVE SeqMax(_)
SeqMax(s) ==
    IF Len(s) = 1 THEN s[1]
    ELSE LET m == SeqMax(Tail(s)) IN IF s[1] > m THEN s[1] ELSE m

RECURSIVE Flatten(_)
Flatten(ss) == IF ss = <<>> THEN <<>> ELSE Head(ss) \o Flatten(Tail(ss))

\* Interpreter::next, TRI1 arm: aa, bb, cc
Interpreter_tri1(w) ==
    <<TriHalf(Extract8(w, 48)), TriHalf(Extract8(w, 40)), TriHalf(Extract8(w, 32))>>

\* Interpreter::next, TRI2 arm: [aa, bb, cc] and [dd, ee, ff]
Interpreter_tri2(w) ==
    << <<TriHalf(Extract8(w, 48)), TriHalf(Extract8(w, 40)), TriHalf(Extract8(w, 32))>>,
       <<TriHalf(Extract8(w, 16)), TriHalf(Extract8(w, 8)), TriHalf(Extract8(w, 0))>> >>

\* Interpreter::flush(next_vtx_addr) on the interpreter's fields
flush(segs, st, next_vtx_addr) ==
    LET
        \* indices_start_index of Interpreter::flush
        IndicesStartIndex(vertices) == Len(vertices)
        replaced == [st EXCEPT !.current_vtx_addr = next_vtx_addr]
    IN  IF ~st.current_vtx_addr.set THEN replaced
        ELSE IF st.tris = <<>> THEN replaced
        ELSE LET max_tri_index == SeqMax(Flatten(st.tris))
                 start == IndicesStartIndex(st.vertices)
                 loaded == segment_iter_take(segs, st.current_vtx_addr.data, max_tri_index + 1)
             IN  IF loaded.tag # "Ok" THEN
                     [replaced EXCEPT !.status = "Err", !.err = loaded.err]
                 ELSE [replaced EXCEPT
                           !.vertices = st.vertices \o loaded.val,
                           !.indices = st.indices \o
                               [i \in 1..(3 * Len(st.tris)) |-> start + Flatten(st.tris)[i]],
                           !.tris = <<>>]

\* Interpreter::next, for one call of the loop `while interpreter.next()? {}`
Interpreter_next(segs, st) ==
    IF st.done THEN [st EXCEPT !.status = "Ok"]
    ELSE LET it == InstrIter_next(segs, st.pos)
             at == [st EXCEPT !.pos = it.pos,
                              !.ndecoded = IF it.read THEN st.ndecoded + 1 ELSE st.ndecoded]
         IN  IF it.tag = "Err" THEN [at EXCEPT !.status = "Err", !.err = it.err]
             ELSE IF it.tag = "None" THEN flush(segs, [at EXCEPT !.done = TRUE], None)
             ELSE IF it.op = VTX THEN flush(segs, at, Some(Vtx_addr(it.word)))
             ELSE IF it.op = TRI1 THEN
                 [at EXCEPT !.tris = st.tris \o <<Interpreter_tri1(it.word)>>]
             ELSE IF it.op = TRI2 THEN
                 [at EXCEPT !.tris = st.tris \o Interpreter_tri2(it.word)]
             ELSE at

-----------------------------------------------------------------------------
(* skeleton.rs read_animated_skin_limb and apply_limb_transformations, and the
   earlier skin/gltf.rs gltf_from_skeleton: the vertex buffer of an animated
   limb.  A modification is taken as decoded: its transformations
   [x, y, z, scale] and the buffer indices of its skin vertices.  An f32
   offset is kept in hundredths, which is exact for the scales the
   modifications of SpecSkin use (scale as f32 * 0.01 is 0.5 or 1.0). *)

\* vec![Vtx::default(); total_vtx_count]: the positions
ZeroBuffer(total_vtx_count) == [i \in 1..total_vtx_count |-> <<0, 0, 0>>]

RECURSIVE FoldTransformations(_, _)
FoldTransformations(accum, ts) ==
    LET
        \* The step of the fold of apply_limb_transformations
        AccumStep(t) ==
            <<accum[1] + (t.x * t.scale), accum[2] + (t.y * t.scale), accum[3] + (t.z * t.scale)>>
    IN  IF ts = <<>> THEN accum
        ELSE FoldTransformations(AccumStep(Head(ts)), Tail(ts))

\* apply_limb_transformations: the fold from Default::default()
apply_limb_transformations(ts) == FoldTransformations(<<0, 0, 0>>, ts)

\* `as i16` of an f32: towards zero, saturating
F32AsI16(h) ==
    LET t == IF h >= 0 THEN h \div 100 ELSE 0 - ((0 - h) \div 100)
    IN  IF t > 32767 THEN 32767 ELSE IF t < (0 - 32768) THEN 0 - 32768 ELSE t

\* A write that adds to the position it finds
WriteVertex_add(vtx_buffer, index, vtx_point) ==
    [vtx_buffer EXCEPT ![index + 1] =
        <<@[1] + F32AsI16(vtx_point[1]), @[2] + F32AsI16(vtx_point[2]),
          @[3] + F32AsI16(vtx_point[3])>>]

\* vtx_buffer[index].pos = [vtx_point as i16; 3]
WriteVertex(vtx_buffer, index, vtx_point) ==
    [vtx_buffer EXCEPT ![index + 1] =
        <<F32AsI16(vtx_point[1]), F32AsI16(vtx_point[2]), F32AsI16(vtx_point[3])>>]

\* for skin_vertex in skin_vertices { vtx_buffer[index].pos = ... }: the
\* buffer, or the panic of an index outside it
RECURSIVE UpdateVertices(_, _, _)
UpdateVertices(vtx_buffer, skin_vertices, vtx_point) ==
    IF skin_vertices = <<>> THEN Ok(vtx_buffer)
    ELSE IF Head(skin_vertices) >= Len(vtx_buffer) THEN Panic
    ELSE UpdateVertices(WriteVertex(vtx_buffer, Head(skin_vertices), vtx_point),
                        Tail(skin_vertices), vtx_point)

\* The body of `for modif in limb_modifs` in skeleton.rs
ApplyModif(vtx_buffer, modif) ==
    UpdateVertices(vtx_buffer, modif.skin_vertices,
                   apply_limb_transformations(modif.limb_transformations))

\* The body of `for modif in &animated_limb.limb_modifications` in
\* skin/gltf.rs: nothing for a modification with one transformation
ApplyModif_skin(vtx_buffer, modif) ==
    IF Len(modif.limb_transformations) = 1 THEN Ok(vtx_buffer)
    ELSE UpdateVertices(vtx_buffer, modif.skin_vertices,
                        FoldTransformations(<<0, 0, 0>>, modif.limb_transformations))

\* The loop over the limb modifications, on a buffer
RECURSIVE ApplyLimbModifs(_, _, _)
ApplyLimbModifs(rev, vtx_buffer, modifs) ==
    IF modifs = <<>> THEN Ok(vtx_buffer)
    ELSE LET b == IF rev = "skeleton" THEN ApplyModif(vtx_buffer, Head(modifs))
                  ELSE ApplyModif_skin(vtx_buffer, Head(modifs))
         IN  IF b.tag # "Ok" THEN b ELSE ApplyLimbModifs(rev, b.val, Tail(modifs))

-----------------------------------------------------------------------------
(* skeleton_animation.rs for_each_frame_data and
   write_animation_frames_to_gltf, and the earlier skin/skeleton.rs
   SkeletonAnimation::create_from_header.  A header is the record
   [frame_count, frame_data, joint_indicies, static_index_max] with the two
   16-bit fields as the unsigned values of their bytes; a joint is the three
   angles read for it, ahead of their conversion to a quaternion. *)

\* U16::get on two big-endian bytes
U16Get(hi, lo) == (hi * 256) + lo

\* `n as i16` of a 16-bit value
AsI16(n) == IF n >= 32768 THEN n - 65536 ELSE n

\* i16 + i16: a panic where overflow is checked, the wrapped sum where it is not
AddI16(a, b, build) ==
    LET sum == a + b
    IN  IF sum >= (0 - 32768) /\ sum <= 32767 THEN Ok(sum)
        ELSE IF build = "debug" THEN Panic
        ELSE Ok(AsI16((sum + 65536) % 65536))

\* A variant of JointIndexOf that takes the entry of the limb's own index
JointIndexOf_same(limb_index) == limb_index

\* The joint index of limb limb_index: joint_indicies[limb_index + 1]
JointIndexOf(limb_index) == limb_index + 1

\* rom::JointIndex of a record's bytes: x, y, z
JointIndexFrom(rec) == <<U16Get(rec[1], rec[2]), U16Get(rec[3], rec[4]), U16Get(rec[5], rec[6])>>

\* The closure frame_data: reader.read(animation_header.frame_data + n as i32)
frame_data(segs, hdr, n) ==
    LET Value(r) == IF r.tag = "Ok" THEN Ok(I16Get(r.val[1], r.val[2])) ELSE r
    IN  Value(read(segs, AddrAdd(hdr.frame_data, n * LayoutOf.I16.size), LayoutOf.I16))

\* The closure static_data
static_data(segs, hdr, n) == frame_data(segs, hdr, AsI16(n))

\* The closure dynamic_data: frame_data(frame_index as i16 + n as i16)
dynamic_data(segs, hdr, frame_index, n, build) ==
    LET At(sum) == IF sum.tag # "Ok" THEN sum ELSE frame_data(segs, hdr, sum.val)
    IN  At(AddI16(AsI16(frame_index % 65536), AsI16(n), build))

\* The closure read_data
read_data(segs, hdr, frame_index, n, build) ==
    IF n >= hdr.static_index_max THEN dynamic_data(segs, hdr, frame_index, n, build)
    ELSE static_data(segs, hdr, n)

\* The three read_data(...)? of one limb: [x, y, z], or the first failure
ReadJoint(segs, hdr, frame_index, ji, build) ==
    LET Joint(x, y, z) ==
            IF x.tag # "Ok" THEN x
            ELSE IF y.tag # "Ok" THEN y
            ELSE IF z.tag # "Ok" THEN z
            ELSE Ok(<<x.val, y.val, z.val>>)
    IN  Joint(read_data(segs, hdr, frame_index, ji[1], build),
              read_data(segs, hdr, frame_index, ji[2], build),
              read_data(segs, hdr, frame_index, ji[3], build))

\* for limb_index in from..limb_count of for_each_frame_data: what f is called
\* with, limb by limb, or the first failure
RECURSIVE ForEachLimb(_, _, _, _, _, _, _)
ForEachLimb(segs, hdr, frame_index, joint_indicies, from, limb_count, build) ==
    LET Rest(j, rest) == IF rest.tag # "Ok" THEN rest ELSE Ok(<<j.val>> \o rest.val)
        Limb(j) ==
            IF j.tag # "Ok" THEN j
            ELSE Rest(j, ForEachLimb(segs, hdr, frame_index, joint_indicies,
                                     from + 1, limb_count, build))
    IN  IF from >= limb_count THEN Ok(<<>>)
        ELSE Limb(ReadJoint(segs, hdr, frame_index,
                            JointIndexFrom(joint_indicies[JointIndexOf(from) + 1]), build))

\* for_each_frame_data
for_each_frame_data(segs, hdr, frame_index, limb_count, build) ==
    LET Limbs(joint_indicies) ==
            IF joint_indicies.tag = "Err" THEN Err("Failed to read joint indicies")
            ELSE IF joint_indicies.tag # "Ok" THEN joint_indicies
            ELSE ForEachLimb(segs, hdr, frame_index, joint_indicies.val, 0, limb_count, build)
    IN  Limbs(read_slice(segs, hdr.joint_indicies, LayoutOf.JointIndex, limb_count + 1))

\* vec![Vec::new(); limb_count + 1]
EmptyFrameTable(limb_count) == [i \in 1..(limb_count + 1) |-> <<>>]

\* The closure of write_animation_frames_to_gltf over one frame:
\* frame_table[limb_index].push(...) for each call of f
PushFrame(frame_table, joints) ==
    [i \in 1..Len(frame_table) |->
        IF i <= Len(joints) THEN Append(frame_table[i], joints[i]) ELSE frame_table[i]]

\* The earlier decoder.  r.segment_iter::<T>(addr).take(n).collect(): the
\* records of size bytes, or the first error
RECURSIVE segment_iter_collect(_, _, _, _)
segment_iter_collect(segs, addr, size, n) ==
    IF n = 0 THEN Ok(<<>>)
    ELSE LET rec == RomReaderBytes(segs, addr, size)
         IN  IF rec.tag # "Ok" THEN rec
             ELSE LET rest == segment_iter_collect(segs, AddrAdd(addr, size), size, n - 1)
                  IN  IF rest.tag # "Ok" THEN rest ELSE Ok(<<rec.val>> \o rest.val)

\* for limb_index in from..(limbs.len() + 1): the joint table of a frame
RECURSIVE JointTable(_, _, _, _, _, _)
JointTable(segs, hdr, frame_index, joint_indices, from, count) ==
    LET
        \* The closure limb_data of create_from_header
        limb_data(n) ==
            LET
                \* The closure frame_data of create_from_header:
                \* r.seek(frame_data + 2 * (frame_index_ as i32 + n as i32)).read_i16()
                create_frame_data(frame_index_) ==
                    LET r == RomReaderBytes(segs, AddrAdd(hdr.frame_data, 2 * (frame_index_ + n)), 2)
                    IN  IF r.tag = "Ok" THEN Ok(I16Get(r.val[1], r.val[2])) ELSE r
            IN  IF AsI16(n) >= AsI16(hdr.static_index_max) THEN create_frame_data(frame_index)
                ELSE create_frame_data(0)
    IN  IF from >= count THEN Ok(<<>>)
        ELSE LET ji == JointIndexFrom(joint_indices[from + 1])
                 x == limb_data(ji[1])
                 y == limb_data(ji[2])
                 z == limb_data(ji[3])
             IN  IF x.tag # "Ok" THEN x
                 ELSE IF y.tag # "Ok" THEN y
                 ELSE IF z.tag # "Ok" THEN z
                 ELSE LET rest == JointTable(segs, hdr, frame_index, joint_indices, from + 1, count)
                      IN  IF rest.tag # "Ok" THEN rest
                          ELSE Ok(<<<<x.val, y.val, z.val>>>> \o rest.val)

\* joint_table.iter().skip(1)
SkipOne(joint_table) == SubSeq(joint_table, 2, Len(joint_table))

-----------------------------------------------------------------------------
(* Inputs of the reader's callers *)

MaxLen == 3

MaxOff == 5

MaxCount == 2

\* Segment::Object and Segment::IconItemStatic, the two the callers use
SegInputs == {Object, IconItemStatic}

TopNibbles == {0, 8}

QuerySegs == {0, Object, IconItemStatic}

MkAddr(top, seg, off) == U32((top * 16) + seg, off)

TypedAddrs == {MkAddr(0, s, o) : s \in QuerySegs, o \in 0..MaxOff}

\* u8, zerocopy::I16, rom::Aligned2<u8>
Layouts == {Layout(1, 1), Layout(2, 1), Layout(2, 2)}

NoAddr == U32(0, 0)

NoLayout == Layout(0, 1)

Call(op, addr, T, count, out) ==
    [op |-> op, addr |-> addr, T |-> T, count |-> count, out |-> out]

NoSegments == [n \in 0..(NumSegments - 1) |-> None]

-----------------------------------------------------------------------------
(* A display-list run: skeleton.rs read_normal_skin_limb (slice_from,
   InstructionStream, try_fold over mesh::fold), and dlist/gltf.rs
   dlist_to_gltf (Interpreter::new, then next until it returns false). *)

MaxInstrs == 5

NPool == 3

\* The i16 v as two big-endian bytes
I16Bytes(v) ==
    LET u == (v + 65536) % 65536
    IN  <<u \div 256, u % 256>>

\* A rom::Vtx record with position pos, every other field zero
VtxRecord(pos) ==
    I16Bytes(pos[1]) \o I16Bytes(pos[2]) \o I16Bytes(pos[3]) \o [i \in 1..10 |-> 0]

\* Vertex j (from 0) of the vertex data in the Object segment
PoolVertex(j) == <<j + 1, 0 - (j + 1), 256 * (j + 1)>>

PoolBytes == Flatten([j \in 1..NPool |-> VtxRecord(PoolVertex(j - 1))])

InstrVtx(nn, addr) ==
    <<VTX, nn \div 16, (nn % 16) * 16, (2 * nn) % 256,
      addr.hi, addr.lo \div 65536, (addr.lo \div 256) % 256, addr.lo % 256>>

InstrTri1(a, b, c) == <<TRI1, a, b, c, 0, 0, 0, 0>>

InstrEndDL == <<ENDDL, 0, 0, 0, 0, 0, 0, 0>>

Instrs ==
    LET
        InstrTri2(a, b, c, d, e, f) == <<TRI2, a, b, c, 0, d, e, f>>
        InstrSync == <<RDPPIPESYNC, 0, 0, 0, 0, 0, 0, 0>>
        \* 0xDE, a branch to another display list, which the decoders do not know
        InstrUnknown == <<222, 0, 0, 0, 6, 0, 0, 0>>
    IN  { InstrVtx(2, MkAddr(0, Object, 0)),
          InstrVtx(1, MkAddr(0, Object, 2 * LayoutOf.Vtx.size)),
          InstrTri1(0, 2, 4),
          InstrTri2(1, 3, 5, 2, 4, 7),
          InstrEndDL,
          InstrSync,
          InstrUnknown }

DLSegments(prog) == [NoSegments EXCEPT ![Object] = Some(PoolBytes \o Flatten(prog))]

Revisions == {"display_list", "dlist"}

Run(rev, prog, status) ==
    [rev |-> rev, prog |-> prog, status |-> status, err |-> "",
     stream |-> <<>>, vertex_offset |-> 0,
     pos |-> NoAddr, done |-> FALSE, tris |-> <<>>, current_vtx_addr |-> None,
     vertices |-> <<>>, indices |-> <<>>, ndecoded |-> 0]

\* The components before they are entered: no call made, no word decoded, no
\* buffer, no animation, no extraction, no run of a display list
Idle ==
    [last |-> Call("new", NoAddr, NoLayout, 0, Ok(<<>>)),
     dl |-> Run("none", <<>>, "Idle"),
     tri |-> [rev |-> "none", op |-> 0, word |-> <<>>, out |-> <<>>],
     skin |-> [rev |-> "none", total_vtx_count |-> 0, modifs |-> <<>>, vtx_buffer |-> <<>>,
              status |-> "Idle", applied |-> 0, slot |-> None, loaded |-> <<>>],
     anim |-> [rev |-> "none", build |-> "none", status |-> "Idle", err |-> "",
              hdr |-> [frame_count |-> 0, frame_data |-> NoAddr, joint_indicies |-> NoAddr,
              static_index_max |-> 0],
              limb_count |-> 0, frame |-> 0, frame_table |-> <<>>, joint_indices |-> <<>>,
              frames |-> <<>>],
     ext |-> [rev |-> "none", build |-> "none", kinds |-> <<>>, links |-> "flat", anims |-> <<>>,
             run |-> 0, stage |-> "Idle", status |-> "Idle", err |-> "", next |-> 0,
             limbs |-> <<>>, limb_count |-> 0, root |-> <<>>, local |-> <<>>, r |-> <<>>,
             animations |-> <<>>, file |-> FALSE, log |-> <<>>, first |-> <<>>,
             child_sibling |-> 255]]

InitDL ==
    LET
        Progs == UNION {[1..n -> Instrs] : n \in 0..MaxInstrs}
    IN  \E rev \in Revisions, prog \in Progs :
            /\ segments = DLSegments(prog)
            /\ last = Idle.last
            /\ ext = Idle.ext
            /\ anim = Idle.anim
            /\ dl = Run(rev, prog, "Start")
            /\ tri = Idle.tri
            /\ skin = Idle.skin

\* read_normal_skin_limb up to the try_fold; Interpreter::new
DLBegin ==
    LET
        \* The display list follows the vertex data
        DLStart == MkAddr(0, Object, LayoutOf.Vtx.size * NPool)
    IN  /\ dl.status = "Start"
        /\ dl' = IF dl.rev = "display_list"
                 THEN LET s == slice_from(segments, DLStart)
                      IN  IF s.tag = "Ok" THEN [dl EXCEPT !.status = "Running", !.stream = s.val]
                          ELSE [dl EXCEPT !.status = s.tag, !.err = s.err]
                 ELSE [dl EXCEPT !.status = "Running", !.pos = DLStart]
        /\ UNCHANGED DLFrame

\* One turn of try_fold: InstructionStream::next, then the fold closure
TryFoldStep ==
    /\ dl.rev = "display_list"
    /\ dl.status = "Running"
    /\ LET n == StreamNext(dl.stream)
       IN  dl' = IF n.tag = "None" THEN [dl EXCEPT !.status = "Ok", !.stream = n.rest]
                 ELSE IF n.tag = "Panic" THEN
                     [dl EXCEPT !.status = "Panic", !.ndecoded = dl.ndecoded + 1]
                 ELSE LET f == fold(segments, dl.vertices, dl.indices, dl.vertex_offset, n.word)
                      IN  [dl EXCEPT !.stream = n.rest,
                                     !.ndecoded = dl.ndecoded + 1,
                                     !.status = IF f.tag = "Ok" THEN "Running" ELSE f.tag,
                                     !.err = f.err,
                                     !.vertices = f.vertices,
                                     !.indices = f.indices,
                                     !.vertex_offset = f.vertex_offset]
    /\ UNCHANGED DLFrame

\* One turn of `while interpreter.next()? {}`
InterpreterStep ==
    /\ dl.rev = "dlist"
    /\ dl.status = "Running"
    /\ dl' = Interpreter_next(segments, dl)
    /\ UNCHANGED DLFrame

NextDL ==
    \/ DLBegin
    \/ TryFoldStep
    \/ InterpreterStep

SpecDL == InitDL /\ [][NextDL]_vars

MaxFairInstrs == 3

\* Before the caller has loaded a segment and named a display list
InitDLFair ==
    /\ segments = NoSegments
    /\ last = Idle.last
    /\ ext = Idle.ext
    /\ anim = Idle.anim
    /\ dl = Idle.dl
    /\ tri = Idle.tri
    /\ skin = Idle.skin

\* The caller loads the Object segment and starts on the display list in it
DLLoad ==
    /\ dl.status = "Idle"
    /\ \E rev \in Revisions, prog \in UNION {[1..n -> Instrs] : n \in 0..MaxFairInstrs} :
           /\ segments' = DLSegments(prog)
           /\ dl' = Run(rev, prog, "Start")
    /\ UNCHANGED <<last, tri, skin, anim, ext>>

NextDLFair ==
    \/ DLLoad
    \/ DLBegin
    \/ TryFoldStep
    \/ InterpreterStep

\* try_fold and `while interpreter.next()? {}` keep stepping until the run ends
SpecDLFair == InitDLFair /\ [][NextDLFair]_vars /\ WF_vars(NextDLFair)

-----------------------------------------------------------------------------
(* The reader and its callers *)

\* What the reader's calls leave alone
Init ==
    /\ segments = NoSegments
    /\ last = Idle.last
    /\ ext = Idle.ext
    /\ anim = Idle.anim
    /\ dl = Idle.dl
    /\ tri = Idle.tri
    /\ skin = Idle.skin

SetSegment ==
    LET
        \* Buffers a caller installs with set_segment: byte i (from 0) is i + 1
        Synthetic(n) == [i \in 1..n |-> i]
        SetData == {None} \cup {Some(Synthetic(n)) : n \in 0..MaxLen}
    IN  \E segment \in SegInputs, data \in SetData :
            /\ segments' = set_segment(segments, segment, data)
            /\ last' = Call("set_segment", MkAddr(0, segment, 0), NoLayout, 0, Ok(<<>>))
            /\ UNCHANGED ReaderFrame

ReadSegment ==
    LET
        \* The image read_segment loads from: two addresses, 0x06000004 and 0x08000001
        RomImage == <<6, 0, 0, 4, 8, 0, 0, 1>>
        \* Range<u32>::len
        RangeLen(start, end) == IF end > start THEN end - start ELSE 0
        \* r.seek(Start(range.start)) then r.read_exact(&mut buf) on an image
        read_exact(image, start, n) ==
            IF start + n > Len(image) THEN Err("Io")
            ELSE Ok(SubSeq(image, start + 1, start + n))
        RangeStarts == {0, 4, 8}
        RangeEnds == {4, 8, Len(RomImage) + 1}
    IN  \E segment \in SegInputs, start \in RangeStarts, end \in RangeEnds :
            LET buf == read_exact(RomImage, start, RangeLen(start, end))
            IN  /\ segments' = IF buf.tag = "Ok"
                               THEN set_segment(segments, segment, Some(buf.val))
                               ELSE segments
                /\ last' = Call("read_segment", MkAddr(0, segment, 0), NoLayout, 0,
                                IF buf.tag = "Ok" THEN Ok(<<>>) ELSE buf)
                /\ UNCHANGED ReaderFrame

SliceFrom ==
    LET
        Addrs == {MkAddr(t, s, o) : t \in TopNibbles, s \in QuerySegs, o \in 0..MaxOff}
    IN  \E addr \in Addrs :
            /\ last' = Call("slice_from", addr, NoLayout, 0, slice_from(segments, addr))
            /\ UNCHANGED <<segments, ReaderFrame>>

Read ==
    \E addr \in TypedAddrs, T \in Layouts :
        /\ last' = Call("read", addr, T, 0, read(segments, addr, T))
        /\ UNCHANGED <<segments, ReaderFrame>>

ReadSlice ==
    \E addr \in TypedAddrs, T \in Layouts, count \in 0..MaxCount :
        /\ last' = Call("read_slice", addr, T, count,
                        read_slice(segments, addr, T, count))
        /\ UNCHANGED <<segments, ReaderFrame>>

PtrSliceIter ==
    LET
        TableAddrs == {MkAddr(0, s, o) : s \in SegInputs, o \in {0, 4}}
    IN  \E addr \in TableAddrs, T \in Layouts, count \in 0..MaxCount :
            /\ last' = Call("ptr_slice_iter", addr, T, count,
                            ptr_slice_iter(segments, addr, T, count))
            /\ UNCHANGED <<segments, ReaderFrame>>

Next ==
    \/ SetSegment
    \/ ReadSegment
    \/ SliceFrom
    \/ Read
    \/ ReadSlice
    \/ PtrSliceIter

Spec == Init /\ [][Next]_vars

-----------------------------------------------------------------------------
(* Decoding one triangle instruction: display_list.rs Tri1 and Tri2, and the
   TRI1 and TRI2 arms of Interpreter::next in dlist/gltf.rs *)

InitTri ==
    LET
        \* The bytes of the word that hold aa, bb, cc, dd, ee, ff
        OperandBytes == <<2, 3, 4, 6, 7, 8>>
        \* What the other bytes of the word hold
        WordFills == {0, 255}
        TriWord(op, slot, b, fill) ==
            [i \in 1..8 |-> IF i = 1 THEN op ELSE IF i = OperandBytes[slot] THEN b ELSE fill]
        TriInput(rev, op, w) == [rev |-> rev, op |-> op, word |-> w, out |-> <<>>]
    IN  /\ segments = NoSegments
        /\ last = Idle.last
        /\ ext = Idle.ext
        /\ anim = Idle.anim
        /\ dl = Idle.dl
        /\ skin = Idle.skin
        /\ \E rev \in Revisions, op \in {TRI1, TRI2}, slot \in 1..6, b \in 0..255, fill \in WordFills :
               tri = TriInput(rev, op, TriWord(op, slot, b, fill))

DecodeTri1 ==
    /\ tri.op = TRI1
    /\ tri.out = <<>>
    /\ tri' = [tri EXCEPT !.out = IF tri.rev = "display_list" THEN Tri1_indices(tri.word)
                                  ELSE Interpreter_tri1(tri.word)]
    /\ UNCHANGED <<segments, last, dl, skin, anim, ext>>

DecodeTri2 ==
    /\ tri.op = TRI2
    /\ tri.out = <<>>
    /\ tri' = [tri EXCEPT !.out = IF tri.rev = "display_list" THEN Tri2_indices(tri.word)
                                  ELSE Flatten(Interpreter_tri2(tri.word))]
    /\ UNCHANGED <<segments, last, dl, skin, anim, ext>>

NextTri ==
    \/ DecodeTri1
    \/ DecodeTri2

SpecTri == InitTri /\ [][NextTri]_vars

-----------------------------------------------------------------------------
(* Deforming the vertex buffer of an animated limb *)

MaxTotalVtx == 2

MaxModifs == 2

MaxApplies == 2

\* let mut vtx_buffer = vec![rom::Vtx::default(); total_vtx_count]
InitSkin ==
    LET
        Transformation(x, y, z, scale) == [x |-> x, y |-> y, z |-> z, scale |-> scale]
        \* Lists of 0, 1, 2 and 3 transformations; their offsets have halves, a
        \* negative component and a component beyond i16
        TransformationLists ==
            LET a == Transformation(3, 0 - 3, 200, 50)
                b == Transformation(0 - 5, 1, 32767, 100)
            IN  {<<>>, <<a>>, <<a, b>>, <<b, a, a>>}
        \* Lists of buffer indices; the last index is outside a shorter buffer
        SkinVertexLists == {<<>>, <<0>>, <<MaxTotalVtx - 1>>, <<0, MaxTotalVtx - 1>>}
        SeqsUpTo(S, n) == UNION {[1..k -> S] : k \in 0..n}
        Modifs == [limb_transformations : TransformationLists, skin_vertices : SkinVertexLists]
        SkinRevisions == {"skeleton", "skin"}
        \* The display list of the limb, at the start of the Object segment: it
        \* loads the total vertices of segment IconItemStatic and draws the first
        \* and the last
        DisplayList(total) ==
            Flatten(<<InstrVtx(total, MkAddr(0, IconItemStatic, 0)),
                      InstrTri1(0, 2 * (total - 1), 0), InstrEndDL>>)
    IN  /\ last = Idle.last
        /\ ext = Idle.ext
        /\ anim = Idle.anim
        /\ dl = Idle.dl
        /\ tri = Idle.tri
        /\ \E rev \in SkinRevisions, total \in 1..MaxTotalVtx, modifs \in SeqsUpTo(Modifs, MaxModifs) :
               /\ segments = [NoSegments EXCEPT ![Object] = Some(DisplayList(total))]
               /\ skin = [Idle.skin EXCEPT !.rev = rev, !.total_vtx_count = total,
                                           !.modifs = modifs, !.vtx_buffer = ZeroBuffer(total),
                                           !.status = "Ok"]

\* The loop over the limb modifications, run on the buffer as it stands
ApplyLimbModifications ==
    /\ skin.status = "Ok"
    /\ skin.applied < MaxApplies
    /\ LET b == ApplyLimbModifs(skin.rev, skin.vtx_buffer, skin.modifs)
       IN  skin' = IF b.tag = "Ok"
                   THEN [skin EXCEPT !.vtx_buffer = b.val, !.applied = skin.applied + 1]
                   ELSE [skin EXCEPT !.status = b.tag, !.applied = skin.applied + 1]
    /\ UNCHANGED <<segments, last, dl, tri, anim, ext>>

-----------------------------------------------------------------------------
(* Decoding an animation *)

MaxFrames == 2

MaxLimbs == 2

\* The frame-data table of the animation
FrameData == <<10, 0 - 20, 30, 0 - 40, 50, 60, 0 - 70, 80>>

Builds == {"debug", "release"}

U16Bytes(n) == <<n \div 256, n % 256>>

JointIndexBytes(ji) == U16Bytes(ji[1]) \o U16Bytes(ji[2]) \o U16Bytes(ji[3])

InitAnim ==
    LET
        JointIndices == {<<0, 1, 2>>, <<2, 4, 1>>, <<65535, 0, 3>>}
        \* The joint index of the root, and those a limb may have
        RootJointIndex == <<5, 5, 5>>
        StaticIndexMaxes == {0, 2, 40000}
        AnimRevisions == {"skeleton_animation", "skin_skeleton"}
        \* The Object segment of an animation: its JointIndex table, root first, and
        \* its frame data right behind it
        AnimBytes(joints) ==
            JointIndexBytes(RootJointIndex)
                \o Flatten([i \in 1..Len(joints) |-> JointIndexBytes(joints[i])])
                \o Flatten([i \in 1..Len(FrameData) |-> I16Bytes(FrameData[i])])
        AnimHeader(frame_count, limb_count, static_index_max) ==
            [frame_count |-> frame_count,
             frame_data |-> MkAddr(0, Object, LayoutOf.JointIndex.size * (limb_count + 1)),
             joint_indicies |-> MkAddr(0, Object, 0),
             static_index_max |-> static_index_max]
    IN  /\ last = Idle.last
        /\ ext = Idle.ext
        /\ dl = Idle.dl
        /\ tri = Idle.tri
        /\ skin = Idle.skin
        /\ \E rev \in AnimRevisions, build \in Builds, frame_count \in 0..MaxFrames,
              limb_count \in 1..MaxLimbs, static_index_max \in StaticIndexMaxes :
             \E joints \in [1..limb_count -> JointIndices] :
               /\ segments = [NoSegments EXCEPT ![Object] = Some(AnimBytes(joints))]
               /\ anim = [Idle.anim EXCEPT !.rev = rev, !.build = build, !.status = "Start",
                                        !.hdr = AnimHeader(frame_count, limb_count, static_index_max),
                                        !.limb_count = limb_count]

\* write_animation_frames_to_gltf up to its loop; create_from_header up to its
\* loop, where the joint indices are read
AnimStart ==
    /\ anim.status = "Start"
    /\ anim' =
         IF anim.rev = "skeleton_animation"
         THEN [anim EXCEPT !.status = "Running",
                           !.frame_table = EmptyFrameTable(anim.limb_count)]
         ELSE LET t == segment_iter_collect(segments, anim.hdr.joint_indicies,
                                            LayoutOf.JointIndex.size, anim.limb_count + 1)
              IN  IF t.tag = "Ok" THEN [anim EXCEPT !.status = "Running", !.joint_indices = t.val]
                  ELSE [anim EXCEPT !.status = t.tag, !.err = t.err]
    /\ UNCHANGED AnimFrame

\* One turn of `for frame_index in 0..frame_count` of
\* write_animation_frames_to_gltf
WriteFrame ==
    /\ anim.rev = "skeleton_animation"
    /\ anim.status = "Running"
    /\ anim.frame < anim.hdr.frame_count
    /\ LET j == for_each_frame_data(segments, anim.hdr, anim.frame, anim.limb_count, anim.build)
       IN  anim' = IF j.tag = "Ok"
                   THEN [anim EXCEPT !.frame = anim.frame + 1,
                                     !.frame_table = PushFrame(anim.frame_table, j.val)]
                   ELSE [anim EXCEPT !.status = j.tag, !.err = j.err]
    /\ UNCHANGED AnimFrame

\* One turn of `for frame_index in 0..animation.common.frame_count` of
\* create_from_header
CreateFrame ==
    /\ anim.rev = "skin_skeleton"
    /\ anim.status = "Running"
    /\ anim.frame < anim.hdr.frame_count
    /\ LET t == JointTable(segments, anim.hdr, anim.frame, anim.joint_indices,
                           0, anim.limb_count + 1)
       IN  anim' = IF t.tag = "Ok"
                   THEN [anim EXCEPT !.frame = anim.frame + 1,
                                     !.frames = Append(anim.frames, SkipOne(t.val))]
                   ELSE [anim EXCEPT !.status = t.tag, !.err = t.err]
    /\ UNCHANGED AnimFrame

\* The loop over the frames is over
AnimDone ==
    /\ anim.status = "Running"
    /\ anim.frame >= anim.hdr.frame_count
    /\ anim' = [anim EXCEPT !.status = "Ok"]
    /\ UNCHANGED AnimFrame

NextAnim ==
    \/ AnimStart
    \/ WriteFrame
    \/ CreateFrame
    \/ AnimDone

SpecAnim == InitAnim /\ [][NextAnim]_vars

-----------------------------------------------------------------------------
(* skeleton.rs read_into_gltf, with read_normal_skin_limb,
   read_animated_skin_limb, build_node_hierarchy and
   skeleton_animation::read_into_gltf.  The document root is kept as its
   nodes, its meshes, the number of its buffers (each comes with one buffer
   view and one accessor), its animations and the number of its scenes. *)

\* json::Root::default()
EmptyRoot == [nodes |-> <<>>, meshes |-> <<>>, buffers |-> 0, animations |-> <<>>, scenes |-> 0]

\* SkinLimbType::Animated
Animated == 4

\* SkinLimbType::Normal
Normal == 11

\* child / sibling of a limb that has none
NoLimb == 255

\* rom::SkinLimb of a record's bytes
SkinLimbFrom(rec) ==
    LET
        \* I32::get on four big-endian bytes
        I32Get(b) ==
            ((IF b[1] >= 128 THEN b[1] - 256 ELSE b[1]) * 16777216) + (b[2] * 65536) + (b[3] * 256) + b[4]
    IN  [joint_pos |-> <<I16Get(rec[1], rec[2]), I16Get(rec[3], rec[4]), I16Get(rec[5], rec[6])>>,
         child |-> rec[7],
         sibling |-> rec[8],
         segment_type |-> I32Get(SubSeq(rec, 9, 12)),
         segment |-> AddrOfBytes(SubSeq(rec, 13, 16))]

\* instruction_stream.try_fold(mesh, mesh::fold(reader)) from the mesh and
\* vertex_offset reached: the mesh, or the first failure
RECURSIVE TryFold(_, _, _, _, _)
TryFold(segs, stream, vertices, indices, vertex_offset) ==
    LET
        \* The `?` on the folded instruction, then the rest of the stream
        Folded(f, rest) ==
            IF f.tag = "Err" THEN Err(f.err)
            ELSE IF f.tag = "Panic" THEN Panic
            ELSE TryFold(segs, rest, f.vertices, f.indices, f.vertex_offset)
        Item(n) ==
            IF n.tag = "None" THEN Ok([vertices |-> vertices, indices |-> indices])
            ELSE IF n.tag = "Panic" THEN Panic
            ELSE Folded(fold(segs, vertices, indices, vertex_offset, n.word), n.rest)
    IN  Item(StreamNext(stream))

\* read_normal_skin_limb
read_normal_skin_limb(segs, limb) ==
    LET Data(s) ==
            IF s.tag = "Err" THEN Err("Could not read data")
            ELSE IF s.tag = "Panic" THEN Panic
            ELSE TryFold(segs, s.val, <<>>, <<>>, 0)
    IN  Data(slice_from(segs, limb.segment))

\* rom::SkinTransformation of a record's bytes: x, y, z and scale
SkinTransformationFrom(rec) ==
    [x |-> I16Get(rec[3], rec[4]), y |-> I16Get(rec[5], rec[6]),
     z |-> I16Get(rec[7], rec[8]), scale |-> rec[9]]

\* A variant of VtxAsBytes that keeps the positions only, 6 bytes a vertex
VtxAsBytes_positions(vtx_buffer) ==
    Flatten([i \in 1..Len(vtx_buffer) |->
        I16Bytes(vtx_buffer[i][1]) \o I16Bytes(vtx_buffer[i][2]) \o I16Bytes(vtx_buffer[i][3])])

\* vtx_buffer.as_bytes(): pos as three big-endian I16, the other fields zero
VtxAsBytes(vtx_buffer) == Flatten([i \in 1..Len(vtx_buffer) |-> VtxRecord(vtx_buffer[i])])

\* read_animated_skin_limb up to the clone of the reader: the vertex buffer
\* and the display list's address, or the first failure
AnimatedLimbBuffer(segs, limb) ==
    LET
        \* `for modif in limb_modifs` of read_animated_skin_limb over the records
        \* left: the vertex buffer, or the first failure
        RECURSIVE ForEachModif(_, _)
        ForEachModif(vtx_buffer, recs) ==
            LET Applied(b) == IF b.tag # "Ok" THEN b ELSE ForEachModif(b.val, Tail(recs))
                Modif(ts, vs) ==
                    IF ts.tag = "Err" THEN Err("Failed to read limb transformations")
                    ELSE IF ts.tag = "Panic" THEN Panic
                    ELSE IF vs.tag = "Err" THEN Err("Failed to read skin vertices")
                    ELSE IF vs.tag = "Panic" THEN Panic
                    ELSE Applied(ApplyModif(vtx_buffer,
                             [limb_transformations |->
                                  [i \in 1..Len(ts.val) |-> SkinTransformationFrom(ts.val[i])],
                              skin_vertices |->
                                  [i \in 1..Len(vs.val) |-> U16Get(vs.val[i][1], vs.val[i][2])]]))
                Record(rec) ==
                    Modif(read_slice(segs, AddrOfBytes(SubSeq(rec, 13, 16)),
                                     LayoutOf.SkinTransformation, U16Get(rec[3], rec[4])),
                          read_slice(segs, AddrOfBytes(SubSeq(rec, 9, 12)),
                                     LayoutOf.SkinVertex, U16Get(rec[1], rec[2])))
            IN  IF recs = <<>> THEN Ok(vtx_buffer) ELSE Record(Head(recs))
        Buffer(b, dlist) ==
            IF b.tag # "Ok" THEN b ELSE Ok([vtx_buffer |-> b.val, dlist |-> dlist])
        Modifs(total_vtx_count, recs, dlist) ==
            IF recs.tag = "Err" THEN Err("Failed to read skin limb modifications")
            ELSE IF recs.tag = "Panic" THEN Panic
            ELSE Buffer(ForEachModif(ZeroBuffer(total_vtx_count), recs.val), dlist)
        Data(d) ==
            IF d.tag = "Err" THEN Err("Failed to read skin animated limb data")
            ELSE IF d.tag = "Panic" THEN Panic
            ELSE Modifs(U16Get(d.val[1], d.val[2]),
                        read_slice(segs, AddrOfBytes(SubSeq(d.val, 5, 8)),
                                   LayoutOf.SkinLimbModif, U16Get(d.val[3], d.val[4])),
                        AddrOfBytes(SubSeq(d.val, 9, 12)))
    IN  Data(read(segs, limb.segment, LayoutOf.SkinAnimatedLimbData))

\* let mut reader = reader.clone(); reader.set_segment(IconItemStatic, ...):
\* the reader the display list of an animated limb is decoded with
ClonedReader(segs, vtx_buffer) == set_segment(segs, IconItemStatic, Some(VtxAsBytes(vtx_buffer)))

\* A reader whose clone shares the segment table with it
CallerReader_shared(segs, cloned) == cloned

\* The caller's reader once read_animated_skin_limb has returned: the buffer
\* was set in the clone, which is dropped
CallerReader(segs, cloned) == segs

\* read_animated_skin_limb
read_animated_skin_limb(segs, limb) ==
    LET DisplayList(reader, s) ==
            IF s.tag = "Err" THEN Err("Could not read animated skin limb display list")
            ELSE IF s.tag = "Panic" THEN Panic
            ELSE TryFold(reader, s.val, <<>>, <<>>, 0)
        Cloned(reader, dlist) == DisplayList(reader, slice_from(reader, dlist))
        Animated_(a) ==
            IF a.tag # "Ok" THEN a
            ELSE Cloned(ClonedReader(segs, a.val.vtx_buffer), a.val.dlist)
    IN  Animated_(AnimatedLimbBuffer(segs, limb))

\* The match on FromPrimitive::from_i32(limb.segment_type): Some(mesh), None,
\* or the failure of the limb's reader
LimbMesh(segs, limb) ==
    LET Mesh(m) == IF m.tag # "Ok" THEN m ELSE Ok(Some(m.val))
    IN  IF limb.segment_type = Normal THEN Mesh(read_normal_skin_limb(segs, limb))
        ELSE IF limb.segment_type = Animated THEN Mesh(read_animated_skin_limb(segs, limb))
        ELSE Ok(None)

\* The body of `for limb in &limbs` after the match: the mesh written, then
\* the node pushed with the index of the last mesh
PushLimbNode(root, limb, mesh) ==
    LET
        \* Mesh::write_into_gltf: two buffers (with their views and accessors) and
        \* the mesh_
        write_into_gltf(mesh_) ==
            [root EXCEPT !.buffers = @ + 2, !.meshes = Append(@, mesh_)]
        written == IF mesh.set THEN write_into_gltf(mesh.data) ELSE root
    IN  [written EXCEPT !.nodes = Append(@,
            [mesh |-> IF mesh.set THEN Len(written.meshes) - 1 ELSE 0 - 1,
             translation |-> limb.joint_pos,
             children |-> <<>>])]

\* build_node_hierarchy from limb index on
RECURSIVE build_node_hierarchy(_, _, _)
build_node_hierarchy(root, limbs, index) ==
    LET
        \* The while loop of build_node_hierarchy from child_sibling on: the indices
        \* pushed; a panic when limbs[child_sibling] is out of bounds; more than
        \* Len(limbs) turns mean the chain has a cycle and the loop does not end
        RECURSIVE SiblingChain(_, _)
        SiblingChain(child_sibling, turns) ==
            IF child_sibling = NoLimb THEN Ok(<<>>)
            ELSE IF turns > Len(limbs) THEN [tag |-> "Hang", err |-> "", val |-> <<>>]
            ELSE IF child_sibling >= Len(limbs) THEN Panic
            ELSE LET rest == SiblingChain(limbs[child_sibling + 1].sibling, turns + 1)
                 IN  IF rest.tag # "Ok" THEN rest ELSE Ok(<<child_sibling>> \o rest.val)
    IN  IF index >= Len(limbs) THEN Ok(root)
        ELSE IF limbs[index + 1].child = NoLimb THEN build_node_hierarchy(root, limbs, index + 1)
        ELSE IF index >= Len(root.nodes) THEN Panic
        ELSE IF limbs[index + 1].child >= Len(limbs) THEN Panic
        ELSE LET chain == SiblingChain(limbs[limbs[index + 1].child + 1].sibling, 0)
             IN  IF chain.tag # "Ok" THEN chain
                 ELSE build_node_hierarchy(
                          [root EXCEPT !.nodes[index + 1].children =
                               @ \o <<limbs[index + 1].child>> \o chain.val],
                          limbs, index + 1)

\* rom::AnimationHeader of a record's bytes
AnimationHeaderFrom(rec) ==
    [frame_count |-> I16Get(rec[1], rec[2]),
     frame_data |-> AddrOfBytes(SubSeq(rec, 5, 8)),
     joint_indicies |-> AddrOfBytes(SubSeq(rec, 9, 12)),
     static_index_max |-> U16Get(rec[13], rec[14])]

\* `for frame_index in from..frame_count` of write_animation_frames_to_gltf:
\* the frame table, or the first failure
RECURSIVE ForEachFrame(_, _, _, _, _, _)
ForEachFrame(segs, hdr, limb_count, from, frame_table, build) ==
    LET Frame(j) ==
            IF j.tag # "Ok" THEN j
            ELSE ForEachFrame(segs, hdr, limb_count, from + 1,
                              PushFrame(frame_table, j.val), build)
    IN  IF from >= hdr.frame_count THEN Ok(frame_table)
        ELSE Frame(for_each_frame_data(segs, hdr, from, limb_count, build))

\* skeleton_animation::read_into_gltf: the outcome and the root it leaves
animation_read_into_gltf(segs, root, limb_count, addr, build) ==
    LET
        \* write_times_buffer_to_gltf: one buffer
        write_times_buffer_to_gltf == [root EXCEPT !.buffers = @ + 1]
        \* write_animation_frames_to_gltf over the frame table t
        Frames(t) ==
            IF t.tag # "Ok" THEN [tag |-> t.tag, err |-> t.err, root |-> write_times_buffer_to_gltf]
            ELSE [tag |-> "Ok", err |-> "",
                  root |-> [write_times_buffer_to_gltf EXCEPT
                                !.buffers = @ + limb_count,
                                !.animations = Append(@, t.val)]]
        Header(hdr) ==
            IF hdr.frame_count < 0 THEN [tag |-> "Panic", err |-> "", root |-> root]
            ELSE Frames(ForEachFrame(segs, hdr, limb_count, 0, EmptyFrameTable(limb_count), build))
        HeaderRead(h) ==
            IF h.tag = "Err" THEN [tag |-> "Err", err |-> "Failed to read animation header", root |-> root]
            ELSE IF h.tag = "Panic" THEN [tag |-> "Panic", err |-> "", root |-> root]
            ELSE Header(AnimationHeaderFrom(h.val))
    IN  HeaderRead(read(segs, addr, LayoutOf.AnimationHeader))

-----------------------------------------------------------------------------
(* The earlier extraction: skin/skeleton.rs SkeletonHeader::read, skin.rs
   SkinLimb::read and its nested readers, skin/gltf.rs gltf_from_skeleton and
   main.rs.  Its RomReader is read through RomReaderBytes and
   segment_iter_collect. *)

\* VirtualAddress::NULL
NullAddr == U32(0, 0)

\* SkinAnimatedLimbData::read
SkinAnimatedLimbData_read(segs, addr) ==
    LET
        \* SkinLimbModif::read at each of count records from addr_ on: the skin
        \* vertices' indices and the transformations of each, or the first error
        RECURSIVE SkinLimbModif_read(_, _)
        SkinLimbModif_read(addr_, count) ==
            LET Rest(vs, ts, rest) ==
                    IF rest.tag # "Ok" THEN rest
                    ELSE Ok(<<[limb_transformations |->
                                   [i \in 1..Len(ts.val) |-> SkinTransformationFrom(ts.val[i])],
                               skin_vertices |->
                                   [i \in 1..Len(vs.val) |-> U16Get(vs.val[i][1], vs.val[i][2])]]>>
                            \o rest.val)
                Modif(vs, ts) ==
                    IF vs.tag # "Ok" THEN vs
                    ELSE IF ts.tag # "Ok" THEN ts
                    ELSE Rest(vs, ts, SkinLimbModif_read(AddrAdd(addr_, 16), count - 1))
                Record(rec) ==
                    IF rec.tag # "Ok" THEN rec
                    ELSE Modif(segment_iter_collect(segs, AddrOfBytes(SubSeq(rec.val, 9, 12)), 10,
                                                    U16Get(rec.val[1], rec.val[2])),
                               segment_iter_collect(segs, AddrOfBytes(SubSeq(rec.val, 13, 16)), 10,
                                                    U16Get(rec.val[3], rec.val[4])))
            IN  IF count = 0 THEN Ok(<<>>) ELSE Record(RomReaderBytes(segs, addr_, 16))
        Modifs(d, modifs) ==
            IF modifs.tag # "Ok" THEN modifs
            ELSE Ok([total_vtx_count |-> U16Get(d.val[1], d.val[2]),
                     limb_modifications |-> modifs.val,
                     dlist |-> AddrOfBytes(SubSeq(d.val, 9, 12))])
        Data(d) ==
            IF d.tag # "Ok" THEN d
            ELSE Modifs(d, SkinLimbModif_read(AddrOfBytes(SubSeq(d.val, 5, 8)),
                                              U16Get(d.val[3], d.val[4])))
    IN  Data(RomReaderBytes(segs, addr, 12))

\* SkinLimb::read
SkinLimb_read(segs, addr) ==
    LET AnimatedLimb(limb, animated) ==
            IF animated.tag # "Ok" THEN animated
            ELSE Ok([joint_pos |-> limb.joint_pos, child |-> limb.child,
                     sibling |-> limb.sibling, kind |-> "Animated",
                     animated |-> animated.val, dlist |-> NullAddr])
        Limb(limb) ==
            IF limb.segment_type = Animated /\ limb.segment # NullAddr THEN
                AnimatedLimb(limb, SkinAnimatedLimbData_read(segs, limb.segment))
            ELSE Ok([joint_pos |-> limb.joint_pos, child |-> limb.child,
                     sibling |-> limb.sibling,
                     kind |-> IF limb.segment_type = Normal /\ limb.segment # NullAddr
                              THEN "Normal" ELSE "None",
                     animated |-> [total_vtx_count |-> 0, limb_modifications |-> <<>>,
                                   dlist |-> NullAddr],
                     dlist |-> limb.segment])
        Record(rec) == IF rec.tag # "Ok" THEN rec ELSE Limb(SkinLimbFrom(rec.val))
    IN  Record(RomReaderBytes(segs, addr, 16))

\* SkeletonHeader::read
SkeletonHeader_read(segs, addr) ==
    LET
        \* r.ptr_segment_iter(segment).take(count).collect::<Result<_>>(): the limbs
        \* behind the first count entries of the table, or the first error
        RECURSIVE ptr_segment_iter_collect(_, _)
        ptr_segment_iter_collect(table, count) ==
            LET Rest(limb, rest) ==
                    IF rest.tag # "Ok" THEN rest ELSE Ok(<<limb.val>> \o rest.val)
                Limb(limb) ==
                    IF limb.tag # "Ok" THEN limb
                    ELSE Rest(limb, ptr_segment_iter_collect(AddrAdd(table, 4), count - 1))
                Entry(entry) ==
                    IF entry.tag # "Ok" THEN entry
                    ELSE Limb(SkinLimb_read(segs, AddrOfBytes(entry.val)))
            IN  IF count = 0 THEN Ok(<<>>) ELSE Entry(RomReaderBytes(segs, table, 4))
        Header(h) ==
            IF h.tag # "Ok" THEN h
            ELSE ptr_segment_iter_collect(AddrOfBytes(SubSeq(h.val, 1, 4)), h.val[5])
    IN  Header(RomReaderBytes(segs, addr, 5))

\* dlist_to_gltf
dlist_to_gltf(segs, addr) ==
    LET
        \* `while interpreter.next()? {}`
        RECURSIVE InterpreterLoop(_)
        InterpreterLoop(st) ==
            LET Again(n) == IF n.status = "Running" THEN InterpreterLoop(n) ELSE n
            IN  Again(Interpreter_next(segs, st))
        Mesh(end) ==
            IF end.status = "Ok" THEN Ok([vertices |-> end.vertices, indices |-> end.indices])
            ELSE Err(end.err)
    IN  Mesh(InterpreterLoop([Run("dlist", <<>>, "Running") EXCEPT !.pos = addr]))

\* The RomReader after gltf_from_skeleton has gone through a limb: an animated
\* limb's vertex buffer is set as segment IconItemStatic
RomReaderAfterLimb(segs, limb) ==
    LET Buffer(b) ==
            IF b.tag = "Ok" THEN set_segment(segs, IconItemStatic, Some(VtxAsBytes(b.val)))
            ELSE segs
    IN  IF limb.kind = "Animated"
        THEN Buffer(ApplyLimbModifs("skin", ZeroBuffer(limb.animated.total_vtx_count),
                                    limb.animated.limb_modifications))
        ELSE segs

\* The match on limb.skin_limb_type of gltf_from_skeleton: Some(mesh), None,
\* or the failure
SkinLimbMesh(segs, limb) ==
    LET Mesh(m) == IF m.tag # "Ok" THEN m ELSE Ok(Some(m.val))
        Buffer(b) ==
            IF b.tag # "Ok" THEN b
            ELSE Mesh(dlist_to_gltf(RomReaderAfterLimb(segs, limb), limb.animated.dlist))
    IN  IF limb.kind = "None" THEN Ok(None)
        ELSE IF limb.kind = "Animated"
        THEN Buffer(ApplyLimbModifs("skin", ZeroBuffer(limb.animated.total_vtx_count),
                                    limb.animated.limb_modifications))
        ELSE Mesh(dlist_to_gltf(segs, limb.dlist))

\* The first loop over the limbs after the nodes: parents, from limb index
\* on; unwrap and the indexing panic
RECURSIVE Parents(_, _, _)
Parents(parents, limbs, index) ==
    IF index >= Len(limbs) THEN Ok(parents)
    ELSE LET limb == limbs[index + 1]
             with_child == IF limb.child # NoLimb /\ limb.child < Len(parents)
                           THEN [parents EXCEPT ![limb.child + 1] = index]
                           ELSE parents
         IN  IF limb.child # NoLimb /\ limb.child >= Len(parents) THEN Panic
             ELSE IF limb.sibling = NoLimb THEN Parents(with_child, limbs, index + 1)
             ELSE IF limb.sibling >= Len(parents) THEN Panic
             ELSE IF with_child[index + 1] = 0 - 1 THEN Panic
             ELSE Parents([with_child EXCEPT ![limb.sibling + 1] = with_child[index + 1]],
                          limbs, index + 1)

\* gltf_from_skeleton after the loop that pushes the nodes: the hierarchy and
\* the scene
skin_hierarchy(root, limbs) ==
    LET
        \* The second loop: each limb with a parent is pushed onto its children
        RECURSIVE PushChildren(_, _, _)
        PushChildren(nodes, parents, index) ==
            IF index >= Len(parents) THEN nodes
            ELSE IF parents[index + 1] = 0 - 1 THEN PushChildren(nodes, parents, index + 1)
            ELSE PushChildren([nodes EXCEPT ![parents[index + 1] + 1].children = Append(@, index)],
                              parents, index + 1)
        parents == Parents([i \in 1..Len(root.nodes) |-> 0 - 1], limbs, 0)
    IN  IF parents.tag # "Ok" THEN parents
        ELSE Ok([root EXCEPT !.nodes = PushChildren(root.nodes, parents.val, 0),
                             !.scenes = @ + 1])

\* AnimationHeader::read, then SkeletonAnimation::create_from_header
create_from_header(segs, addr, limbs_len) ==
    LET
        \* `for frame_index in from..frame_count` of create_from_header
        RECURSIVE CreateFrames(_, _, _, _, _)
        CreateFrames(hdr, joint_indices, count, from, frames) ==
            IF from >= hdr.frame_count THEN Ok(frames)
            ELSE LET t == JointTable(segs, hdr, from, joint_indices, 0, count)
                 IN  IF t.tag # "Ok" THEN t
                     ELSE CreateFrames(hdr, joint_indices, count, from + 1, Append(frames, SkipOne(t.val)))
        h == RomReaderBytes(segs, addr, 14)
        hdr == AnimationHeaderFrom(h.val)
        joint_indices == segment_iter_collect(segs, hdr.joint_indicies,
                                              LayoutOf.JointIndex.size, limbs_len + 1)
    IN  IF h.tag # "Ok" THEN h
        ELSE IF joint_indices.tag # "Ok" THEN joint_indices
        ELSE CreateFrames(hdr, joint_indices.val, limbs_len + 1, 0, <<>>)

-----------------------------------------------------------------------------
(* The deformed buffer of an animated limb as a segment *)

\* read_animated_skin_limb from the clone of the reader on, and the Animated
\* arm of gltf_from_skeleton from vertex_buffer_segment on: the buffer is set
\* as segment IconItemStatic and the display list of the limb is decoded
DecodeAnimatedLimb ==
    LET Decoded(reader, mesh) ==
            [skin EXCEPT !.status = IF mesh.tag = "Ok" THEN "Decoded" ELSE mesh.tag,
                         !.slot = reader[IconItemStatic],
                         !.loaded = IF mesh.tag = "Ok" THEN mesh.val.vertices ELSE <<>>]
        Stream(reader, s) ==
            IF s.tag # "Ok" THEN s ELSE TryFold(reader, s.val, <<>>, <<>>, 0)
        Cloned(reader, dlist) ==
            Decoded(reader, IF skin.rev = "skeleton" THEN Stream(reader, slice_from(reader, dlist))
                            ELSE dlist_to_gltf(reader, dlist))
    IN  /\ skin.status = "Ok"
        /\ skin.applied = 1
        /\ skin' = Cloned(ClonedReader(segments, skin.vtx_buffer), MkAddr(0, Object, 0))
        /\ UNCHANGED <<segments, last, dl, tri, anim, ext>>

NextSkin ==
    \/ ApplyLimbModifications
    \/ DecodeAnimatedLimb

SpecSkin == InitSkin /\ [][NextSkin]_vars

-----------------------------------------------------------------------------
(* An extraction: the caller loads the Object segment (vertex data, display
   lists, an animated limb's data, an animation, the skeleton header with its
   limb table and limbs) and segment IconItemStatic, and extracts the skeleton
   twice.  skeleton.rs read_into_gltf fills the caller's root on the caller's
   reader; the earlier main.rs reads the header and the animation, builds the
   root in gltf_from_skeleton and writes the file. *)

MaxExtLimbs == 2

\* The address a as its four big-endian bytes
AddrBytes(a) == <<a.hi, a.lo \div 65536, (a.lo \div 256) % 256, a.lo % 256>>

\* Where the parts of the Object segment start: the vertex data, the display
\* list over it, the display list over the vertex at the start of segment
\* IconItemStatic (three instructions of 8 bytes each), the records of the
\* animated limb, the animation, the skeleton header and the limb table
ExtOff ==
    LET RECURSIVE Sum(_, _)
        Sum(sizes, k) == IF k = 0 THEN 0 ELSE sizes[k] + Sum(sizes, k - 1)
        \* Each part starts where the one before it ends
        Starts(sizes) ==
            [DLPool |-> Sum(sizes, 1), DLIcon |-> Sum(sizes, 2), Animated |-> Sum(sizes, 3),
             Modif |-> Sum(sizes, 4), Animation |-> Sum(sizes, 5), SkinVertex |-> Sum(sizes, 6),
             Transformations |-> Sum(sizes, 7), JointIndices |-> Sum(sizes, 8),
             FrameData |-> Sum(sizes, 9), Skeleton |-> Sum(sizes, 10), Table |-> Sum(sizes, 11)]
    IN  Starts(<<Len(PoolBytes), 3 * 8, 3 * 8, LayoutOf.SkinAnimatedLimbData.size,
                 LayoutOf.SkinLimbModif.size, LayoutOf.AnimationHeader.size,
                 LayoutOf.SkinVertex.size, 2 * LayoutOf.SkinTransformation.size,
                 LayoutOf.JointIndex.size * (MaxExtLimbs + 1),
                 LayoutOf.I16.size * Len(FrameData), LayoutOf.SkeletonHeader.size>>)

\* The joint offset of limb i
JointPosOf(i) == <<i + 1, 0 - (i + 1), 10 * (i + 1)>>

\* The caller's segments: the Object image and an IconItemStatic segment that
\* starts with the vertex (7, 8, 9)
ExtSegments(kinds, links) ==
    LET
        \* rom::SkinLimb as bytes: limb i of n, of the kind and with the links
        LimbBytes(kind, i, n, off) ==
            LET child == IF links = "chain" /\ i + 1 < n THEN i + 1
                         ELSE IF links = "dangling" /\ i = 0 THEN n
                         ELSE IF links = "cycle" /\ i = 0 THEN 0
                         ELSE NoLimb
                sibling == IF links = "cycle" /\ i = 0 THEN 0 ELSE NoLimb
                segment_type == IF kind \in {"Animated", "NullAnimated"} THEN Animated
                                ELSE IF kind = "Joint" THEN 0
                                ELSE IF kind = "Other" THEN 7
                                ELSE Normal
                segment == IF kind = "Animated" THEN MkAddr(0, Object, off.Animated)
                           ELSE IF kind \in {"Pool", "Other"} THEN MkAddr(0, Object, off.DLPool)
                           ELSE IF kind = "Icon" THEN MkAddr(0, Object, off.DLIcon)
                           ELSE IF kind = "Unset" THEN MkAddr(0, Object + 1, 0)
                           ELSE NullAddr
            IN  I16Bytes(JointPosOf(i)[1]) \o I16Bytes(JointPosOf(i)[2]) \o I16Bytes(JointPosOf(i)[3])
                    \o <<child, sibling>>
                    \o <<0, 0, 0, segment_type>>
                    \o AddrBytes(segment)
        \* The table entry of limb i, whose records start at limbs and end at end
        Entry(i, limbs, end) ==
            IF kinds[i] = "Missing" THEN end ELSE limbs + (LayoutOf.SkinLimb.size * (i - 1))
        \* SkinTransformation: (x, y, z) = (3, -3, 200) at scale 50
        Transformation == <<0, 0>> \o I16Bytes(3) \o I16Bytes(0 - 3) \o I16Bytes(200) \o <<50, 0>>
        \* The Object segment of a skeleton with the limbs kinds: the parts at the
        \* offsets off, the skeleton header, the limb table from table on and the
        \* limbs from limbs on.  SkinAnimatedLimbData: one vertex, one modification,
        \* the display list; SkinLimbModif: one skin vertex, two transformations;
        \* AnimationHeader: two frames, components from 2 on are dynamic;
        \* SkinVertex: buffer index 0.  The table entry of a "Missing" limb is the
        \* address of the end of the segment
        ExtImage(n, off, limbs) ==
            Flatten(<<
                PoolBytes,
                Flatten(<<InstrVtx(2, MkAddr(0, Object, 0)), InstrTri1(0, 2, 2), InstrEndDL>>),
                Flatten(<<InstrVtx(1, MkAddr(0, IconItemStatic, 0)), InstrTri1(0, 0, 0), InstrEndDL>>),
                U16Bytes(1) \o U16Bytes(1) \o AddrBytes(MkAddr(0, Object, off.Modif))
                    \o AddrBytes(MkAddr(0, Object, off.DLIcon)),
                U16Bytes(1) \o U16Bytes(2) \o <<0, 0, 0, 0>>
                    \o AddrBytes(MkAddr(0, Object, off.SkinVertex))
                    \o AddrBytes(MkAddr(0, Object, off.Transformations)),
                I16Bytes(2) \o <<0, 0>> \o AddrBytes(MkAddr(0, Object, off.FrameData))
                    \o AddrBytes(MkAddr(0, Object, off.JointIndices))
                    \o U16Bytes(2) \o <<0, 0>>,
                U16Bytes(0) \o [i \in 1..8 |-> 0],
                Flatten([i \in 1..2 |-> Transformation]),
                Flatten([i \in 1..(MaxExtLimbs + 1) |-> JointIndexBytes(<<0, 1, 2>>)]),
                Flatten([i \in 1..Len(FrameData) |-> I16Bytes(FrameData[i])]),
                AddrBytes(MkAddr(0, Object, off.Table)) \o <<n>>,
                Flatten([i \in 1..n |->
                    AddrBytes(MkAddr(0, Object, Entry(i, limbs, limbs + (LayoutOf.SkinLimb.size * n))))]),
                Flatten([i \in 1..n |-> LimbBytes(kinds[i], i - 1, n, off)])>>)
    IN  [NoSegments EXCEPT
            ![Object] = Some(ExtImage(Len(kinds), ExtOff,
                                      ExtOff.Table + (LayoutOf.VirtAddr.size * Len(kinds)))),
            ![IconItemStatic] = Some(VtxRecord(<<7, 8, 9>>))]

SkeletonAddr == MkAddr(0, Object, ExtOff.Skeleton)

\* The state a run of the extraction starts in
NewRun(e, segs, n) ==
    [e EXCEPT !.run = n, !.stage = "Header", !.status = "Running", !.err = "",
              !.next = 0, !.limbs = <<>>, !.limb_count = 0,
              !.root = EmptyRoot, !.local = EmptyRoot, !.r = segs,
              !.animations = <<>>, !.file = FALSE, !.log = <<>>]

InitExtract ==
    LET
        \* What a limb of the skeleton is: a bare joint, a normal limb over the
        \* Object vertices, one over the IconItemStatic vertex, one whose display list
        \* is in a segment that is not loaded, an animated limb, a table entry
        \* that points past the end of the segment, a normal and an animated limb
        \* whose segment is the null address, and a limb of type 7 whose segment
        \* is the display list over the Object vertices
        LimbKinds == {"Joint", "Pool", "Icon", "Unset", "Animated", "Missing",
                      "NullNormal", "NullAnimated", "Other"}
        \* The (child, sibling) of the limbs: none; limb i has child i + 1; limb 0 has
        \* a child that is no limb; limb 0 is its own child and sibling
        LinkKinds == {"flat", "chain", "dangling", "cycle"}
        \* No animation, the animation of the Object segment, an animation in a
        \* segment that is not loaded
        AnimationLists == {<<>>, <<MkAddr(0, Object, ExtOff.Animation)>>, <<MkAddr(0, Object + 1, 0)>>}
        ExtRevisions == {"skeleton", "skin"}
        \* The first run of an extraction of the inputs, over the segments
        Start(inputs, segs) ==
            /\ segments = segs
            /\ ext = NewRun(inputs, segs, 1)
    IN  /\ last = Idle.last
        /\ dl = Idle.dl
        /\ tri = Idle.tri
        /\ skin = Idle.skin
        /\ anim = Idle.anim
        /\ \E rev \in ExtRevisions, build \in Builds, links \in LinkKinds,
              anims \in AnimationLists, n \in 1..MaxExtLimbs :
              \E kinds \in [1..n -> LimbKinds] :
                  Start([Idle.ext EXCEPT !.rev = rev, !.build = build, !.kinds = kinds,
                                         !.links = links, !.anims = anims],
                        ExtSegments(kinds, links))

Step(e) ==
    LET
        \* What a step of a run leaves, as the log keeps it
        Logged ==
            [stage |-> e.stage, status |-> e.status, err |-> e.err, next |-> e.next,
             root |-> e.root, local |-> e.local, animations |-> e.animations, file |-> e.file]
    IN  [e EXCEPT !.log = Append(@, Logged)]

Failed(e, outcome) == [e EXCEPT !.status = outcome.tag, !.err = outcome.err]

\* read_into_gltf: the skeleton header and the limbs
ReadHeader ==
    /\ ext.rev = "skeleton"
    /\ ext.status = "Running"
    /\ ext.stage = "Header"
    /\ LET h == read(segments, SkeletonAddr, LayoutOf.SkeletonHeader)
           limbs == ptr_slice_iter(segments, AddrOfBytes(SubSeq(h.val, 1, 4)),
                                   LayoutOf.SkinLimb, h.val[5])
       IN  ext' = Step(
               IF h.tag = "Err" THEN Failed(ext, Err("Failed to read skeleton header"))
               ELSE IF h.tag = "Panic" THEN Failed(ext, Panic)
               ELSE IF limbs.tag = "Err" THEN Failed(ext, Err("Failed to read limbs"))
               ELSE IF limbs.tag = "Panic" THEN Failed(ext, Panic)
               ELSE [ext EXCEPT !.stage = "Limbs",
                                !.limb_count = h.val[5],
                                !.limbs = [i \in 1..Len(limbs.val) |-> SkinLimbFrom(limbs.val[i])]])
    /\ UNCHANGED ExtFrame

\* read_into_gltf: one turn of `for limb in &limbs`
ReadLimb ==
    LET
        \* The reader of the caller after the limb has been read
        ReaderAfterLimb(segs, limb) ==
            LET Buffer(a) ==
                    IF a.tag = "Ok" THEN CallerReader(segs, ClonedReader(segs, a.val.vtx_buffer))
                    ELSE segs
            IN  IF limb.segment_type = Animated THEN Buffer(AnimatedLimbBuffer(segs, limb))
                ELSE segs
        Limb(limb, m) ==
            IF m.tag # "Ok" THEN Failed(ext, m)
            ELSE [ext EXCEPT !.root = PushLimbNode(ext.root, limb, m.val),
                             !.next = ext.next + 1]
    IN  /\ ext.rev = "skeleton"
        /\ ext.status = "Running"
        /\ ext.stage = "Limbs"
        /\ ext.next < Len(ext.limbs)
        /\ ext' = Step(Limb(ext.limbs[ext.next + 1],
                            LimbMesh(segments, ext.limbs[ext.next + 1])))
        /\ segments' = ReaderAfterLimb(segments, ext.limbs[ext.next + 1])
        /\ UNCHANGED <<last, dl, tri, skin, anim>>

\* read_into_gltf: build_node_hierarchy
BuildHierarchy ==
    /\ ext.rev = "skeleton"
    /\ ext.status = "Running"
    /\ ext.stage = "Limbs"
    /\ ext.next >= Len(ext.limbs)
    /\ LET b == build_node_hierarchy(ext.root, ext.limbs, 0)
       IN  ext' = Step(
               IF b.tag # "Ok" THEN Failed(ext, b)
               ELSE [ext EXCEPT !.root = b.val, !.stage = "Animations", !.next = 0])
    /\ UNCHANGED ExtFrame

\* read_into_gltf: one turn of `for animation_addr in animation_addrs`
ReadAnimation ==
    LET Animation(a) ==
            IF a.tag # "Ok" THEN [Failed(ext, a) EXCEPT !.root = a.root]
            ELSE [ext EXCEPT !.root = a.root, !.next = ext.next + 1]
    IN  /\ ext.rev = "skeleton"
        /\ ext.status = "Running"
        /\ ext.stage = "Animations"
        /\ ext.next < Len(ext.anims)
        /\ ext' = Step(Animation(animation_read_into_gltf(segments, ext.root, ext.limb_count,
                                                          ext.anims[ext.next + 1], ext.build)))
        /\ UNCHANGED ExtFrame

\* read_into_gltf: Ok(())
Finish ==
    /\ ext.rev = "skeleton"
    /\ ext.status = "Running"
    /\ ext.stage = "Animations"
    /\ ext.next >= Len(ext.anims)
    /\ ext' = Step([ext EXCEPT !.status = "Ok", !.stage = "Done"])
    /\ UNCHANGED ExtFrame

\* main: SkeletonHeader::read
ReadSkeletonHeader ==
    LET Header(limbs) ==
            IF limbs.tag # "Ok" THEN Failed(ext, limbs)
            ELSE [ext EXCEPT !.stage = "Animations", !.limbs = limbs.val,
                             !.limb_count = Len(limbs.val)]
    IN  /\ ext.rev = "skin"
        /\ ext.status = "Running"
        /\ ext.stage = "Header"
        /\ ext' = Step(Header(SkeletonHeader_read(ext.r, SkeletonAddr)))
        /\ UNCHANGED ExtFrame

\* main: AnimationHeader::read and SkeletonAnimation::create_from_header
CreateAnimation ==
    LET Animation(a) ==
            IF a.tag # "Ok" THEN Failed(ext, a)
            ELSE [ext EXCEPT !.animations = Append(@, a.val), !.next = ext.next + 1]
    IN  /\ ext.rev = "skin"
        /\ ext.status = "Running"
        /\ ext.stage = "Animations"
        /\ ext.next < Len(ext.anims)
        /\ ext' = Step(Animation(create_from_header(ext.r, ext.anims[ext.next + 1], Len(ext.limbs))))
        /\ UNCHANGED ExtFrame

\* gltf_from_skeleton: let mut root = Default::default()
GltfFromSkeleton ==
    /\ ext.rev = "skin"
    /\ ext.status = "Running"
    /\ ext.stage = "Animations"
    /\ ext.next >= Len(ext.anims)
    /\ ext' = Step([ext EXCEPT !.stage = "Limbs", !.next = 0, !.local = EmptyRoot])
    /\ UNCHANGED ExtFrame

\* gltf_from_skeleton: one turn of `for limb in &header.limbs`
SkinLimbNode ==
    LET Limb(limb, m, r) ==
            IF m.tag # "Ok" THEN [Failed(ext, m) EXCEPT !.r = r, !.local = EmptyRoot]
            ELSE [ext EXCEPT !.r = r,
                             !.local = PushLimbNode(ext.local, limb, m.val),
                             !.next = ext.next + 1]
    IN  /\ ext.rev = "skin"
        /\ ext.status = "Running"
        /\ ext.stage = "Limbs"
        /\ ext.next < Len(ext.limbs)
        /\ ext' = Step(Limb(ext.limbs[ext.next + 1],
                            SkinLimbMesh(ext.r, ext.limbs[ext.next + 1]),
                            RomReaderAfterLimb(ext.r, ext.limbs[ext.next + 1])))
        /\ UNCHANGED ExtFrame

\* gltf_from_skeleton: the hierarchy, the scene and Ok(root); main: the file
\* is created and the root serialized
WriteSkinGltf ==
    /\ ext.rev = "skin"
    /\ ext.status = "Running"
    /\ ext.stage = "Limbs"
    /\ ext.next >= Len(ext.limbs)
    /\ LET b == skin_hierarchy(ext.local, ext.limbs)
       IN  ext' = Step(
               IF b.tag # "Ok" THEN [Failed(ext, b) EXCEPT !.local = EmptyRoot]
               ELSE [ext EXCEPT !.root = b.val, !.local = b.val, !.file = TRUE,
                                !.status = "Ok", !.stage = "Done"])
    /\ UNCHANGED ExtFrame

\* The caller extracts the same skeleton a second time: read_into_gltf on the
\* same reader and a new root; main on a RomReader loaded with the same
\* segments
ExtractAgain ==
    /\ ext.status # "Running"
    /\ ext.run = 1
    /\ ext' = NewRun([ext EXCEPT !.first = ext.log], segments, 2)
    /\ UNCHANGED ExtFrame

NextExtract ==
    \/ ReadHeader
    \/ ReadLimb
    \/ BuildHierarchy
    \/ ReadAnimation
    \/ Finish
    \/ ReadSkeletonHeader
    \/ CreateAnimation
    \/ GltfFromSkeleton
    \/ SkinLimbNode
    \/ WriteSkinGltf
    \/ ExtractAgain

SpecExtract == InitExtract /\ [][NextExtract]_vars

-----------------------------------------------------------------------------
(* Claims about the reader.  The slot, offset and top bits a claim speaks of
   are read off the address pair directly: bits 24..27, 0..23 and 28..31. *)

LastSlot == last.addr.hi % 16

LastOffset == last.addr.lo

LastTop == last.addr.hi \div 16

LastBuf == segments[LastSlot].data

LastLoaded == segments[LastSlot].set

\* C1: slice_from on an address whose slot holds a buffer B and whose offset o
\* is below len(B) returns B[o..], first byte B[o], whatever bits 28..31 are:
\* the addresses that differ from it only in bits 28..31 resolve to the same slice.
C1_SliceFromResolves ==
    (last.op = "slice_from" /\ LastLoaded /\ LastOffset < Len(LastBuf)) =>
        /\ last.out = Ok(SubSeq(LastBuf, LastOffset + 1, Len(LastBuf)))
        /\ last.out.val[1] = LastBuf[LastOffset + 1]
        /\ \A t \in TopNibbles :
               slice_from(segments, MkAddr(t, LastSlot, LastOffset)) = last.out

C1_Witness ==
    /\ last.op = "slice_from"
    /\ LastTop # 0
    /\ LastLoaded
    /\ LastOffset > 0
    /\ LastOffset < Len(LastBuf)
    /\ last.out.tag = "Ok"
    /\ last.out.val # LastBuf

\* C2: after any set_segment / read_segment calls, slice_from, read and
\* read_slice on an address whose slot is unset return the segment-unset error,
\* for every offset: no panic, no data.
C2_UnsetSegmentIsError ==
    (last.op \in {"slice_from", "read", "read_slice"} /\ ~LastLoaded) =>
        last.out = Err("SegmentUnset")

C2_Witness ==
    /\ last.op = "read_slice"
    /\ LastSlot = IconItemStatic
    /\ ~LastLoaded
    /\ LastOffset > 0
    /\ segments[Object].set
    /\ last.out.tag = "Err"

\* C3: slice_from on an address whose slot holds a buffer of length L and whose
\* offset o is at least L returns the AddressOutOfRange error: never a panic,
\* never an empty or truncated slice.
C3_OutOfRangeIsError ==
    (last.op = "slice_from" /\ LastLoaded /\ LastOffset >= Len(LastBuf)) =>
        last.out = Err("AddressOutOfRange")

\* The bytes from the address to the end of its segment; none when the slot is
\* unset or the offset is past the end.
LastRemaining ==
    IF LastLoaded /\ LastOffset <= Len(LastBuf) THEN Len(LastBuf) - LastOffset ELSE -1

\* C4: read<T> succeeds exactly when size_of(T) bytes remain from the address to
\* the end of its segment, read_slice<T> exactly when n * size_of(T) remain;
\* otherwise each returns an error and no partial value.  Record i of a
\* successful read_slice is the bytes at offset + i * size_of(T).
C4_ReadExactlyWhenEnoughBytes ==
    /\ last.op = "read" =>
           /\ last.out.tag = "Ok" <=> LastRemaining >= last.T.size
           /\ last.out.tag \in {"Ok", "Err"}
           /\ last.out.tag = "Ok" =>
                  last.out.val = SubSeq(LastBuf, LastOffset + 1, LastOffset + last.T.size)
    /\ last.op = "read_slice" =>
           /\ last.out.tag = "Ok" <=>
                  (LastRemaining >= 0 /\ LastRemaining >= last.count * last.T.size)
           /\ last.out.tag \in {"Ok", "Err"}
           /\ last.out.tag = "Ok" =>
                  /\ Len(last.out.val) = last.count
                  /\ \A i \in 1..last.count :
                         last.out.val[i] =
                             SubSeq(LastBuf,
                                    LastOffset + ((i - 1) * last.T.size) + 1,
                                    LastOffset + (i * last.T.size))

\* Entry i (from 1) of the pointer table the latest call names
LastEntry(i) ==
    AddrOfBytes(SubSeq(LastBuf, LastOffset + (4 * (i - 1)) + 1, LastOffset + (4 * i)))

\* C5: ptr_slice_iter over a table of n addresses decodes every entry in table
\* order: on success there are exactly n records, record i the one read at the
\* i-th address; when an entry cannot be read the call fails with that error
\* and the entry is not skipped.
C5_PtrTableAllOrError ==
    (last.op = "ptr_slice_iter" /\ LastLoaded
         /\ LastOffset + (4 * last.count) <= Len(LastBuf)) =>
        /\ last.out.tag \in {"Ok", "Err"}
        /\ last.out.tag = "Ok" =>
               /\ Len(last.out.val) = last.count
               /\ \A i \in 1..last.count :
                      Ok(last.out.val[i]) = read(segments, LastEntry(i), last.T)
        /\ (\E i \in 1..last.count : read(segments, LastEntry(i), last.T).tag # "Ok") =>
               last.out.tag = "Err"

-----------------------------------------------------------------------------
(* Claims about display-list runs.  The decoded prefix of a run is the first
   dl.ndecoded instructions of its program. *)

TopByte(w) == w[1]

DecodedPrefix == SubSeq(dl.prog, 1, dl.ndecoded)

EndDLPositions == {k \in 1..Len(dl.prog) : TopByte(dl.prog[k]) = ENDDL}

\* Position of the first ENDDL of the program, 0 when it has none
FirstEndDL ==
    IF EndDLPositions = {} THEN 0
    ELSE CHOOSE k \in EndDLPositions : \A j \in EndDLPositions : k <= j

InterpreterDone ==
    IF dl.rev = "display_list" THEN dl.stream = <<>> ELSE dl.done

C6_AtOrBeforeEndDL ==
    FirstEndDL > 0 =>
        /\ dl.ndecoded <= FirstEndDL
        /\ (dl.ndecoded = FirstEndDL => InterpreterDone)

C6_AfterEndDL ==
    (FirstEndDL > 0 /\ dl.ndecoded = FirstEndDL) =>
        /\ dl'.ndecoded = dl.ndecoded
        /\ dl'.vertices = dl.vertices
        /\ dl'.indices = dl.indices
        /\ dl'.status = "Ok"

\* C6: in a stream that holds an ENDDL nothing after the first ENDDL is ever
\* decoded: the number of decoded instructions never passes its position, the
\* interpreter is done once it is decoded, and every later step leaves the
\* vertex and index lists as they are and ends the run without an error.
C6_NeverReadsPastEndDL == [](C6_AtOrBeforeEndDL) /\ [][C6_AfterEndDL]_vars

\* A finished run whose program has an unknown opcode right after its first
\* ENDDL, with geometry decoded ahead of it
C6_Witness ==
    /\ dl.status = "Ok"
    /\ FirstEndDL > 0
    /\ FirstEndDL < Len(dl.prog)
    /\ TopByte(dl.prog[FirstEndDL + 1]) \notin KnownOpcodes
    /\ dl.ndecoded = FirstEndDL
    /\ dl.vertices # <<>>
    /\ dl.indices # <<>>

\* C7: once the instruction just decoded has a top byte outside the 18 known
\* opcodes, the run has ended with the unknown-opcode error as its result,
\* and not with a panic.
C7_UnknownOpcodeIsError ==
    (dl.ndecoded >= 1 /\ TopByte(dl.prog[dl.ndecoded]) \notin KnownOpcodes) =>
        /\ dl.status = "Err"
        /\ dl.err = "Unknown opcode"

RECURSIVE SeqSum(_)
SeqSum(s) == IF s = <<>> THEN 0 ELSE Head(s) + SeqSum(Tail(s))

IsTri(w) == TopByte(w) \in {TRI1, TRI2}

LocalIndices(w) == IF TopByte(w) = TRI1 THEN Tri1_indices(w) ELSE Tri2_indices(w)

\* The run an instruction of p belongs to: the number of VTX ahead of it
RunOf(p, k) == Cardinality({j \in 1..(k - 1) : TopByte(p[j]) = VTX})

\* The triangles flushed with the run opened by the VTX at j: its own, and for
\* the first run those ahead of any VTX
TrisOfRun(p, j) ==
    {k \in 1..Len(p) :
        /\ IsTri(p[k])
        /\ \/ RunOf(p, k) = RunOf(p, j) + 1
           \/ RunOf(p, k) = 0 /\ RunOf(p, j) = 0}

\* The vertices the run opened by the VTX at j adds to the output list
LoadedByRun(p, j) ==
    IF dl.rev = "display_list" THEN Vtx_nn(p[j])
    ELSE IF TrisOfRun(p, j) = {} THEN 0
    ELSE 1 + SeqMax(Flatten([k \in 1..Len(p) |->
                 IF k \in TrisOfRun(p, j) THEN LocalIndices(p[k]) ELSE <<>>]))

\* The vertices added by the runs ahead of the run of instruction k
RunBase(p, k) ==
    SeqSum([j \in 1..Len(p) |->
        IF TopByte(p[j]) = VTX /\ RunOf(p, j) + 1 < RunOf(p, k)
        THEN LoadedByRun(p, j) ELSE 0])

ExpectedIndices(p) ==
    Flatten([k \in 1..Len(p) |->
        IF IsTri(p[k])
        THEN [i \in 1..Len(LocalIndices(p[k])) |-> LocalIndices(p[k])[i] + RunBase(p, k)]
        ELSE <<>>])

HasVtx(p) == \E j \in 1..Len(p) : TopByte(p[j]) = VTX

\* The states in which the index list of the run is its output so far:
\* mesh::fold emits at every TRI, Interpreter::flush has emitted everything
\* once the run is over
IndicesEmitted ==
    IF dl.rev = "display_list" THEN dl.status \in {"Running", "Ok"}
    ELSE dl.status = "Ok"

\* C9: in a stream with a VTX load, every index a TRI1 or TRI2 emits is its
\* halved operand plus the number of vertices that the runs ahead of the
\* triangle's own run added to the output vertex list (a triangle ahead of
\* the first VTX goes out with the first run, base 0).
C9_IndexIsLocalPlusPriorRuns ==
    (IndicesEmitted /\ HasVtx(DecodedPrefix)) =>
        dl.indices = ExpectedIndices(DecodedPrefix)

\* A finished run that emitted a triangle of a later run over a non-zero base
C9_Witness ==
    /\ dl.status = "Ok"
    /\ \E k \in 1..dl.ndecoded :
           /\ IsTri(dl.prog[k])
           /\ RunBase(DecodedPrefix, k) > 0
    /\ dl.indices = ExpectedIndices(DecodedPrefix)
    /\ dl.indices # <<>>

-----------------------------------------------------------------------------
(* Claims about the triangle operands *)

\* The operand byte that sits at bits lo..lo+7 of the word
ByteAtBits(w, lo) == w[8 - (lo \div 8)]

OperandBits == <<48, 40, 32, 16, 8, 0>>

\* C8: the local indices of a TRI1 are the halves, rounded down, of the bytes
\* at bits 48-55, 40-47 and 32-39 of the word, those of a TRI2 these and the
\* halves of the bytes at bits 16-23, 8-15 and 0-7: an operand 2k or 2k+1
\* gives index k.
C8_HalvingIsFloor ==
    tri.out # <<>> =>
        /\ Len(tri.out) = IF tri.op = TRI1 THEN 3 ELSE 6
        /\ \A i \in 1..Len(tri.out) :
               \E k \in 0..127 :
                   /\ ByteAtBits(tri.word, OperandBits[i]) \in {2 * k, (2 * k) + 1}
                   /\ tri.out[i] = k

\* A TRI2 whose operand ee is odd, decoded next to even operands
C8_Witness ==
    /\ tri.op = TRI2
    /\ tri.out # <<>>
    /\ ByteAtBits(tri.word, 8) = 201
    /\ ByteAtBits(tri.word, 48) = 0
    /\ tri.out = <<0, 0, 0, 0, 100, 0>>

-----------------------------------------------------------------------------
(* Claims about the skin deformation *)

AppliedOnce == ApplyLimbModifs(skin.rev, ZeroBuffer(skin.total_vtx_count), skin.modifs)

\* C10: applying a list of limb modifications to the buffer a second time
\* leaves every position as the first application on the zeroed buffer left it.
C10_DeformationIsIdempotent ==
    (skin.status = "Ok" /\ skin.applied >= 1) =>
        /\ AppliedOnce.tag = "Ok"
        /\ skin.vtx_buffer = AppliedOnce.val

\* A buffer deformed twice by a list with a modification of two
\* transformations, some position being non-zero
C10_Witness ==
    /\ skin.status = "Ok"
    /\ skin.applied = 2
    /\ \E m \in 1..Len(skin.modifs) :
           /\ Len(skin.modifs[m].limb_transformations) = 2
           /\ skin.modifs[m].skin_vertices # <<>>
    /\ \E i \in 1..Len(skin.vtx_buffer) : skin.vtx_buffer[i] # <<0, 0, 0>>

-----------------------------------------------------------------------------
(* Claims about the animation decoder.  Element e of the frame-data table is
   the 16-bit value at 2 * e bytes from the table's address, there when the
   segment holds its two bytes. *)

\* The angles stored for limb i (from 0) in frame f (from 0)
JointAt(i, f) ==
    IF anim.rev = "skeleton_animation" THEN anim.frame_table[i + 1][f + 1]
    ELSE anim.frames[f + 1][i + 1]

\* The joint-index component c of limb i, as the table in the segment has it
ComponentOf(i, c) ==
    LET at == (LayoutOf.JointIndex.size * (i + 1)) + (2 * (c - 1))
        data == segments[Object].data
    IN  (data[at + 1] * 256) + data[at + 2]

TableOffset == anim.hdr.frame_data.lo

HasElement(e) == TableOffset + (2 * e) + 2 <= Len(segments[Object].data)

ElementAt(e) ==
    LET data == segments[Object].data
        u == (data[TableOffset + (2 * e) + 1] * 256) + data[TableOffset + (2 * e) + 2]
    IN  IF u >= 32768 THEN u - 65536 ELSE u

\* The element the resolution rule names for component n in frame f
ResolvedElement(n, f) == IF n < anim.hdr.static_index_max THEN n ELSE f + n

\* C11: every angle decoded for a frame f from a joint-index component n is
\* element n of the frame-data table when n < static_index_max, and element
\* f + n otherwise.
C11_JointIndexResolution ==
    \A f \in 0..(anim.frame - 1), i \in 0..(anim.limb_count - 1), c \in 1..3 :
        LET e == ResolvedElement(ComponentOf(i, c), f)
        IN  /\ HasElement(e)
            /\ JointAt(i, f)[c] = ElementAt(e)

-----------------------------------------------------------------------------
(* Claims about the vertex and index lists of a display-list run *)

\* The count field of a VTX instruction, bits 44-51 of the word
CountField(w) == ((w[2] % 16) * 16) + (w[3] \div 16)

\* The buffer offset in the low 32 bits of a VTX instruction
SourceOffset(w) == (w[6] * 65536) + (w[7] * 256) + w[8]

\* The signed big-endian 16-bit value at offset o of the Object segment
SignedAt(o) ==
    LET u == (segments[Object].data[o + 1] * 256) + segments[Object].data[o + 2]
    IN  IF u >= 32768 THEN u - 65536 ELSE u

\* The position of the 16-byte vertex record at offset o
RecordAt(o) == <<SignedAt(o), SignedAt(o + 2), SignedAt(o + 4)>>

\* Whether nn records starting at the source of the VTX w lie in the buffer
Readable(w) == SourceOffset(w) + (16 * CountField(w)) <= Len(segments[Object].data)

\* The records A, A+16, ..., A+16*(nn-1) of every VTX of p, in stream order
ExpectedVertices(p) ==
    Flatten([k \in 1..Len(p) |->
        IF TopByte(p[k]) = VTX
        THEN [i \in 1..CountField(p[k]) |-> RecordAt(SourceOffset(p[k]) + (16 * (i - 1)))]
        ELSE <<>>])

\* C15: while a run has not failed, its vertex list is the concatenation, over
\* the VTX instructions decoded so far, of exactly nn records read at A, A+16,
\* ..., whatever the triangles of the run name; a VTX with fewer than nn
\* readable records makes the run fail.
C15_VtxAppendsExactlyNN ==
    IndicesEmitted =>
        /\ \A k \in 1..dl.ndecoded : TopByte(dl.prog[k]) = VTX => Readable(dl.prog[k])
        /\ dl.vertices = ExpectedVertices(DecodedPrefix)

IsPrefix(s, t) == Len(s) <= Len(t) /\ SubSeq(t, 1, Len(s)) = s

\* A step that decodes a VTX instruction
VtxStep ==
    /\ dl'.ndecoded = dl.ndecoded + 1
    /\ TopByte(dl.prog[dl'.ndecoded]) = VTX

\* C16: a step that decodes a VTX removes and rewrites nothing: the vertex
\* list before it is a prefix of the vertex list after it, and so is the index
\* list, so every index emitted before the load keeps its value.
C16_VtxKeepsEarlierGeometry ==
    [][VtxStep => /\ IsPrefix(dl.vertices, dl'.vertices)
                  /\ IsPrefix(dl.indices, dl'.indices)]_vars

\* A second VTX has just been decoded over vertices and indices of the run
\* ahead of it
C16_Witness ==
    /\ dl.status = "Running"
    /\ dl.ndecoded >= 3
    /\ TopByte(dl.prog[dl.ndecoded]) = VTX
    /\ RunOf(dl.prog, dl.ndecoded) >= 1
    /\ dl.indices # <<>>
    /\ Len(dl.vertices) >= 2

\* The number of instructions of p with top byte op
CountOf(p, op) == Cardinality({k \in 1..Len(p) : TopByte(p[k]) = op})

\* C17: a run that finished without an error has 3 indices for every TRI1 and
\* 6 for every TRI2 it decoded, in instruction and operand order, also for
\* the triangles ahead of the first VTX; no other opcode adds an index.
C17_EveryTriangleIsEmitted ==
    dl.status = "Ok" =>
        /\ Len(dl.indices) = (3 * CountOf(DecodedPrefix, TRI1)) + (6 * CountOf(DecodedPrefix, TRI2))
        /\ dl.indices = ExpectedIndices(DecodedPrefix)

\* The bytes of the buffer from the interpreter's position on
Remaining ==
    IF dl.rev = "display_list" THEN Len(dl.stream)
    ELSE Len(segments[Object].data) - dl.pos.lo

\* A step that decodes an instruction other than ENDDL moves the position on
\* by 8 bytes
Advance8 ==
    (dl'.ndecoded = dl.ndecoded + 1 /\ dl'.status \in {"Running", "Ok", "Err"}
        /\ TopByte(dl.prog[dl'.ndecoded]) # ENDDL)
    => (Remaining' = Remaining - 8)

\* C18: every run ends, at Done (the first ENDDL or the end of the buffer) or
\* with an error returned to the caller, and every step that decodes an
\* instruction moves the position on by exactly 8 bytes.
C18_AlwaysTerminates ==
    /\ <>(dl.status \in {"Ok", "Err"})
    /\ [][Advance8]_vars

-----------------------------------------------------------------------------
(* Claims about the vertex buffer a list of limb modifications leaves *)

\* A quotient in hundredths as the i16 it is stored as: towards zero, kept
\* inside the 16-bit range
StoredAs(h) ==
    LET t == IF h >= 0 THEN h \div 100 ELSE 0 - ((0 - h) \div 100)
    IN  IF t > 32767 THEN 32767 ELSE IF t < (0 - 32768) THEN 0 - 32768 ELSE t

\* The sum over a list of transformations of component * scale, in hundredths
RECURSIVE ScaledSum(_, _)
ScaledSum(ts, c) ==
    IF ts = <<>> THEN 0
    ELSE (IF c = 1 THEN Head(ts).x ELSE IF c = 2 THEN Head(ts).y ELSE Head(ts).z)
             * Head(ts).scale
         + ScaledSum(Tail(ts), c)

\* The position a modification with transformations ts writes
AccumulatedOffset(ts) ==
    <<StoredAs(ScaledSum(ts, 1)), StoredAs(ScaledSum(ts, 2)), StoredAs(ScaledSum(ts, 3))>>

\* Whether modification m of the list names buffer slot v
Names(m, v) ==
    \E k \in 1..Len(skin.modifs[m].skin_vertices) : skin.modifs[m].skin_vertices[k] = v

\* The last modification of the list that names slot v, 0 when none does
LastNaming(v) ==
    LET ms == {m \in 1..Len(skin.modifs) : Names(m, v)}
    IN  IF ms = {} THEN 0 ELSE CHOOSE m \in ms : \A n \in ms : n <= m

\* C19: once the modifications have been applied, the buffer has
\* total_vtx_count entries, every slot some skin vertex names holds the
\* accumulated offset of the last modification naming it, and every other
\* slot holds the zero position.
C19_LastModificationWins ==
    (skin.status = "Ok" /\ skin.applied >= 1) =>
        /\ Len(skin.vtx_buffer) = skin.total_vtx_count
        /\ \A v \in 0..(skin.total_vtx_count - 1) :
               skin.vtx_buffer[v + 1] =
                   IF LastNaming(v) = 0 THEN <<0, 0, 0>>
                   ELSE AccumulatedOffset(skin.modifs[LastNaming(v)].limb_transformations)

\* C20: once the modifications have been applied, a slot whose last naming
\* modification has exactly one transformation holds that transformation's
\* (x, y, z) scaled by scale * 0.01, written as for any other modification.
C20_SingleTransformationIsWritten ==
    (skin.status = "Ok" /\ skin.applied >= 1) =>
        \A v \in 0..(skin.total_vtx_count - 1) :
            (LastNaming(v) # 0 /\ Len(skin.modifs[LastNaming(v)].limb_transformations) = 1) =>
                LET t == skin.modifs[LastNaming(v)].limb_transformations[1]
                IN  skin.vtx_buffer[v + 1] =
                        <<StoredAs(t.x * t.scale), StoredAs(t.y * t.scale), StoredAs(t.z * t.scale)>>

-----------------------------------------------------------------------------
(* Claims about the extraction.  A run's log holds what every step of the run
   left: stage, outcome, error, document and file. *)

ExtEnded == ext.status # "Running"

C13_NoPartialOutput ==
    ext.status = "Err" =>
        /\ ext.root = EmptyRoot
        /\ ~ext.file

\* Whether a limb of the kind produces geometry
HasGeometry(kind) == kind \in {"Pool", "Icon", "Animated"}

\* The number of limbs ahead of limb i (from 0) that produce geometry
MeshesAhead(i) == Cardinality({j \in 1..i : HasGeometry(ext.kinds[j])})

\* The vertices of the mesh limb i (from 0) decodes to.  The earlier
\* extraction sets an animated limb's buffer in its own reader, where the
\* display list of a later limb finds it
VerticesOf(i) ==
    LET kind == ext.kinds[i + 1]
        buffer == <<3, 0 - 3, 200>>
    IN  IF kind = "Pool" THEN <<PoolVertex(0), PoolVertex(1)>>
        ELSE IF kind = "Animated" THEN <<buffer>>
        ELSE IF ext.rev = "skin" /\ \E j \in 1..i : ext.kinds[j] = "Animated" THEN <<buffer>>
        ELSE <<<<7, 8, 9>>>>

\* C14: an extraction that ended without an error has one node per limb of the
\* skeleton, in limb order: node i has limb i's joint offset, it has a mesh
\* exactly when limb i has geometry, that mesh is the one decoded from limb i,
\* and there are as many meshes as limbs with geometry.
C14_OneNodePerLimb ==
    ext.status = "Ok" =>
        /\ Len(ext.root.nodes) = Len(ext.kinds)
        /\ Len(ext.root.meshes) = MeshesAhead(Len(ext.kinds))
        /\ \A i \in 0..(Len(ext.kinds) - 1) :
               /\ ext.root.nodes[i + 1].translation = JointPosOf(i)
               /\ (ext.root.nodes[i + 1].mesh # 0 - 1) = HasGeometry(ext.kinds[i + 1])
               /\ HasGeometry(ext.kinds[i + 1]) =>
                      /\ ext.root.nodes[i + 1].mesh = MeshesAhead(i)
                      /\ ext.root.meshes[MeshesAhead(i) + 1].vertices = VerticesOf(i)

\* Whether a limb of the kind is a pure joint: its type is neither 4 nor 11,
\* or its segment is the null address
PureJoint(kind) == kind \in {"Joint", "Other", "NullNormal", "NullAnimated"}

\* The nodes pushed so far: into the caller's root, or into the root that
\* gltf_from_skeleton builds
NodesPushed == IF ext.rev = "skeleton" THEN ext.root.nodes ELSE ext.local.nodes

\* Whether every entry of the limb table can be read, so that limb i of the
\* extraction is limb i of the skeleton
AllEntriesRead == \A j \in 1..Len(ext.kinds) : ext.kinds[j] # "Missing"

\* C21: a limb whose type is neither 4 nor 11, or whose segment is the null
\* address, is a pure joint: its node has no mesh, and the extraction does not
\* end with an error or a panic in the turn of the limb loop that handles it.
C21_PureJointHasNoMesh ==
    AllEntriesRead =>
        /\ \A i \in 1..Len(NodesPushed) :
               PureJoint(ext.kinds[i]) => NodesPushed[i].mesh = 0 - 1
        /\ (ext.stage = "Limbs" /\ ext.status \in {"Err", "Panic"} /\ ext.next < Len(ext.kinds)) =>
               ~PureJoint(ext.kinds[ext.next + 1])

\* The segment table the limbs are read from: the caller's reader, or the
\* RomReader of main
ReaderInUse == IF ext.rev = "skeleton" THEN segments ELSE ext.r

\* The meshes written so far, next to NodesPushed
MeshesPushed == IF ext.rev = "skeleton" THEN ext.root.meshes ELSE ext.local.meshes

\* C23: the segment table the limbs are read from stays the one the
\* extraction started with, whatever limbs have been handled, and so the
\* mesh of a normal limb whose display list loads the vertex of segment
\* IconItemStatic holds that vertex, also after an animated limb.
C23_NormalLimbReadsOriginalSegments ==
    /\ ReaderInUse = ExtSegments(ext.kinds, ext.links)
    /\ AllEntriesRead =>
           \A i \in 1..Len(NodesPushed) :
               ext.kinds[i] = "Icon" =>
                   MeshesPushed[NodesPushed[i].mesh + 1].vertices = <<<<7, 8, 9>>>>

-----------------------------------------------------------------------------
(* The hierarchy of the nodes, one loop turn at a time: skeleton.rs
   build_node_hierarchy over the caller's root, and the loops of skin/gltf.rs
   gltf_from_skeleton over its own root.  The limbs are bare joints whose child
   and sibling bytes are any limb index, an index past the list, or 0xFF; every
   limb has its node. *)

MaxHierLimbs == 3

InitHier ==
    LET Links == (0..MaxHierLimbs) \cup {NoLimb}
        \* rom::SkinLimb of a bare joint, and the SkinLimb of skin.rs read from it
        Joint(rev, link) ==
            IF rev = "skeleton"
            THEN [joint_pos |-> <<0, 0, 0>>, child |-> link[1], sibling |-> link[2],
                  segment_type |-> 0, segment |-> NullAddr]
            ELSE [joint_pos |-> <<0, 0, 0>>, child |-> link[1], sibling |-> link[2],
                  kind |-> "None",
                  animated |-> [total_vtx_count |-> 0, limb_modifications |-> <<>>,
                                dlist |-> NullAddr],
                  dlist |-> NullAddr]
        \* The root after the loop over the limbs: a node without a mesh for each
        Nodes(limbs) ==
            [EmptyRoot EXCEPT !.nodes =
                [i \in 1..Len(limbs) |->
                    [mesh |-> 0 - 1, translation |-> limbs[i].joint_pos, children |-> <<>>]]]
        Start(rev, limbs) ==
            ext = [Idle.ext EXCEPT !.rev = rev, !.run = 1, !.status = "Running",
                                   !.stage = IF rev = "skeleton" THEN "Hierarchy" ELSE "Limbs",
                                   !.limbs = limbs, !.limb_count = Len(limbs),
                                   !.next = IF rev = "skeleton" THEN 0 ELSE Len(limbs),
                                   !.root = IF rev = "skeleton" THEN Nodes(limbs) ELSE EmptyRoot,
                                   !.local = IF rev = "skeleton" THEN EmptyRoot ELSE Nodes(limbs)]
    IN  /\ segments = NoSegments
        /\ last = Idle.last
        /\ dl = Idle.dl
        /\ tri = Idle.tri
        /\ skin = Idle.skin
        /\ anim = Idle.anim
        /\ \E rev \in {"skeleton", "skin"}, n \in 1..MaxHierLimbs :
              \E links \in [1..n -> Links \X Links] :
                  Start(rev, [i \in 1..n |-> Joint(rev, links[i])])

\* children.push(Index::new(index)) and child_sibling = limbs[index].sibling of
\* build_node_hierarchy
PushAndFollow(e, index) ==
    LET
        \* The children a node keeps: a sibling chain without a cycle has at most
        \* one entry for each limb, and the pushes of a chain with a cycle go on
        \* past it
        MaxChildren == MaxHierLimbs + 1
        pushed == [e EXCEPT !.root.nodes[e.next + 1].children =
                                IF Len(@) >= MaxChildren THEN @ ELSE Append(@, index)]
    IN  \* The indexing panics past the end of the limbs
        IF index >= Len(e.limbs) THEN Failed(pushed, Panic)
        ELSE [pushed EXCEPT !.child_sibling = e.limbs[index + 1].sibling, !.stage = "Siblings"]

\* build_node_hierarchy: one turn of the `for` loop up to its `while`
HierarchyLimb ==
    /\ ext.rev = "skeleton"
    /\ ext.status = "Running"
    /\ ext.stage = "Hierarchy"
    /\ ext.next < Len(ext.limbs)
    /\ ext' = IF ext.limbs[ext.next + 1].child = NoLimb THEN [ext EXCEPT !.next = @ + 1]
              ELSE PushAndFollow(ext, ext.limbs[ext.next + 1].child)
    /\ UNCHANGED ExtFrame

\* build_node_hierarchy: one test of `while child_sibling != 0xFF`
HierarchySibling ==
    /\ ext.rev = "skeleton"
    /\ ext.status = "Running"
    /\ ext.stage = "Siblings"
    /\ ext' = IF ext.child_sibling = NoLimb
              THEN [ext EXCEPT !.stage = "Hierarchy", !.next = @ + 1]
              ELSE [ext EXCEPT !.stage = "Push"]
    /\ UNCHANGED ExtFrame

\* build_node_hierarchy: the body of the `while`
HierarchyPush ==
    /\ ext.rev = "skeleton"
    /\ ext.status = "Running"
    /\ ext.stage = "Push"
    /\ ext' = PushAndFollow(ext, ext.child_sibling)
    /\ UNCHANGED ExtFrame

\* build_node_hierarchy: the `for` loop is over and the function returns
HierarchyBuilt ==
    /\ ext.rev = "skeleton"
    /\ ext.status = "Running"
    /\ ext.stage = "Hierarchy"
    /\ ext.next >= Len(ext.limbs)
    /\ ext' = [ext EXCEPT !.status = "Ok", !.stage = "Done"]
    /\ UNCHANGED ExtFrame

NextHier ==
    \/ HierarchyLimb
    \/ HierarchySibling
    \/ HierarchyPush
    \/ HierarchyBuilt
    \/ WriteSkinGltf

SpecHier == InitHier /\ [][NextHier]_vars

\* The loops run on: a turn that can be taken is taken
SpecHierFair == SpecHier /\ WF_vars(NextHier)

\* The sibling chain from limb c on, as the limbs give it: c, its sibling, ...
\* up to 0xFF, an index past the limbs, or turns entries
RECURSIVE ChainFrom(_, _, _)
ChainFrom(limbs, c, turns) ==
    IF c = NoLimb \/ c >= Len(limbs) \/ turns = 0 THEN <<>>
    ELSE <<c>> \o ChainFrom(limbs, limbs[c + 1].sibling, turns - 1)

\* The children the limbs give limb p (from 0): its child and the chain from it
KidsOf(limbs, p) == ChainFrom(limbs, limbs[p + 1].child, Len(limbs) + 1)

\* The limbs are a forest: every child and sibling is a limb or 0xFF, no limb is
\* on two chains or twice on one, no limb is among its own ancestors, and a
\* limb without a parent has no sibling
WellFormedLimbs(limbs) ==
    LET n == Len(limbs)
        ParentsOf(x) == {p \in 0..(n - 1) : \E k \in 1..Len(KidsOf(limbs, p)) : KidsOf(limbs, p)[k] = x}
        RECURSIVE Rooted(_, _)
        Rooted(x, turns) ==
            \/ ParentsOf(x) = {}
            \/ turns > 0 /\ \A p \in ParentsOf(x) : Rooted(p, turns - 1)
    IN  /\ \A i \in 1..n : /\ limbs[i].child \in (0..(n - 1)) \cup {NoLimb}
                           /\ limbs[i].sibling \in (0..(n - 1)) \cup {NoLimb}
        /\ \A x \in 0..(n - 1) :
               Cardinality({pk \in (0..(n - 1)) \X (1..(n + 1)) :
                                /\ pk[2] <= Len(KidsOf(limbs, pk[1]))
                                /\ KidsOf(limbs, pk[1])[pk[2]] = x}) <= 1
        /\ \A x \in 0..(n - 1) : Rooted(x, n)
        /\ \A x \in 0..(n - 1) : ParentsOf(x) = {} => limbs[x + 1].sibling = NoLimb

\* The limbs in the children of a node
ChildSet(children) == {children[k] : k \in 1..Len(children)}

\* C22: over limbs that are a forest, in whatever order their indices are, the
\* reconstruction of the hierarchy ends without a failure, and the children of
\* each node p are then the child of limb p and the limbs on the sibling chain
\* from it, each once; a limb without a child has a node without children
C22_ChildrenAreChildAndSiblingChain ==
    WellFormedLimbs(ext.limbs) =>
        /\ ext.status \in {"Running", "Ok"}
        /\ ext.status = "Ok" =>
               \A p \in 1..Len(ext.limbs) :
                   /\ Len(NodesPushed[p].children) = Len(KidsOf(ext.limbs, p - 1))
                   /\ ChildSet(NodesPushed[p].children) = ChildSet(KidsOf(ext.limbs, p - 1))

\* C28: the reconstruction of the hierarchy comes to an end, by a return or a
\* panic, for every list of limbs, whatever its child and sibling bytes are
C28_HierarchyTerminates == <>(ext.status # "Running")

\* C29: after the reconstruction of the hierarchy over any list of limbs, each
\* node is at most once in the children of at most one node, no node is among
\* its own children, and node 0 is among no node's children
C29_HierarchyIsForest ==
    ext.status = "Ok" =>
        LET n == Len(NodesPushed)
        IN  /\ \A x \in 0..(n - 1) :
                   Cardinality({pk \in (1..n) \X (1..(MaxHierLimbs + 1)) :
                                    /\ pk[2] <= Len(NodesPushed[pk[1]].children)
                                    /\ NodesPushed[pk[1]].children[pk[2]] = x}) <= 1
            /\ \A p \in 1..n : (p - 1) \notin ChildSet(NodesPushed[p].children)
            /\ \A p \in 1..n : 0 \notin ChildSet(NodesPushed[p].children)

-----------------------------------------------------------------------------
(* Claims about the joints an animation's frames hold *)

\* The bytes of entry k (from 0) of the JointIndex table in the segment
JointIndexEntry(k) ==
    SubSeq(segments[Object].data, (LayoutOf.JointIndex.size * k) + 1,
           LayoutOf.JointIndex.size * (k + 1))

\* The angles the decoder of the revision reads in frame f through entry k of
\* the JointIndex table
DecodedFrom(k, f) ==
    IF anim.rev = "skeleton_animation"
    THEN ReadJoint(segments, anim.hdr, f, JointIndexFrom(JointIndexEntry(k)), anim.build)
    ELSE LET t == JointTable(segments, anim.hdr, f, <<JointIndexEntry(k)>>, 0, 1)
         IN  IF t.tag = "Ok" THEN Ok(t.val[1]) ELSE t

\* The joints kept for frame f (from 0), limb by limb
JointsOfFrame(f) ==
    IF anim.rev = "skeleton_animation"
    THEN [i \in 1..anim.limb_count |-> anim.frame_table[i][f + 1]]
    ELSE anim.frames[f + 1]

\* C24: the decoder reads limb_count + 1 JointIndex entries; every decoded
\* frame holds limb_count joints, the joint of limb i being the one decoded
\* through entry i + 1 of the table, never through entry 0; the track of each
\* limb holds the frames decoded so far in their order, frame_count of them
\* when the decoder is done
C24_JointsSkipRootEntry ==
    anim.status \in {"Running", "Ok"} =>
        /\ anim.rev = "skin_skeleton" => Len(anim.joint_indices) = anim.limb_count + 1
        /\ anim.rev = "skeleton_animation" =>
               \A i \in 1..anim.limb_count : Len(anim.frame_table[i]) = anim.frame
        /\ anim.rev = "skin_skeleton" => Len(anim.frames) = anim.frame
        /\ anim.status = "Ok" => anim.frame = anim.hdr.frame_count
        /\ \A f \in 0..(anim.frame - 1) :
               /\ Len(JointsOfFrame(f)) = anim.limb_count
               /\ \A i \in 0..(anim.limb_count - 1) :
                      JointsOfFrame(f)[i + 1] = DecodedFrom(i + 1, f).val

\* Two frames of two limbs are decoded, and what the root's entry decodes to in
\* the second frame is the joint of no limb
C24_Witness ==
    /\ anim.status = "Ok"
    /\ anim.hdr.frame_count = MaxFrames
    /\ anim.limb_count = MaxLimbs
    /\ DecodedFrom(0, 1).tag = "Ok"
    /\ \A i \in 1..anim.limb_count : JointsOfFrame(1)[i] # DecodedFrom(0, 1).val

\* C25: a component n of a joint index decoded in frame f is read at byte offset
\* 2 * (f + n) from the address of the frame-data table when n is at least
\* static_index_max as unsigned values, and at 2 * n otherwise: neither n nor
\* f + n wraps or changes sign, the two bytes read lie in the table's segment,
\* and the index arithmetic does not panic
C25_FrameDataIndexDoesNotWrap ==
    /\ anim.status # "Panic"
    /\ \A f \in 0..(anim.frame - 1), i \in 0..(anim.limb_count - 1), c \in 1..3 :
           LET n == ComponentOf(i, c)
               at == TableOffset + (2 * (IF n >= anim.hdr.static_index_max THEN f + n ELSE n))
           IN  /\ at + 2 <= Len(segments[Object].data)
               /\ JointAt(i, f)[c] = SignedAt(at)

\* C27: when a display list has been interpreted without an error, every entry
\* of the index list is smaller than the number of vertices in the vertex list
C27_IndicesWithinVertices ==
    dl.status = "Ok" =>
        \A k \in 1..Len(dl.indices) : dl.indices[k] < Len(dl.vertices)

\* C26: once the deformed buffer of total_vtx_count vertices is set as a
\* segment and the display list has loaded its vertices from it, the segment
\* holds 16 * total_vtx_count bytes and the vertex loaded from offset 16 * i is
\* the position the deformation left in slot i of the buffer, for every slot
C26_SyntheticSegmentRoundTrip ==
    skin.status = "Decoded" =>
        /\ skin.slot.set
        /\ Len(skin.slot.data) = 16 * skin.total_vtx_count
        /\ Len(skin.loaded) = skin.total_vtx_count
        /\ \A i \in 1..skin.total_vtx_count : skin.loaded[i] = skin.vtx_buffer[i]

\* Two deformed vertices that differ, one with a negative component, have been
\* loaded back from the segment
C26_Witness ==
    /\ skin.status = "Decoded"
    /\ skin.total_vtx_count = MaxTotalVtx
    /\ skin.vtx_buffer[1] # skin.vtx_buffer[MaxTotalVtx]
    /\ \E i \in 1..MaxTotalVtx, c \in 1..3 : skin.vtx_buffer[i][c] < 0
    /\ \E i \in 1..MaxTotalVtx, c \in 1..3 : skin.vtx_buffer[i][c] > 255

-----------------------------------------------------------------------------
(* addr.rs: the address of element k behind a typed address *)

MaxIndex == 2

\* impl Add<i32> for VirtAddr<T>: self.0 + rhs * size_of::<T>(), on an address
\* a caller holds and an index it adds
VirtAddrAdd ==
    LET
        \* The first and the last offsets of a segment number, under the top
        \* nibbles the callers' addresses have and under 0xF
        Addrs == {MkAddr(t, s, o) : t \in TopNibbles \cup {15}, s \in QuerySegs \cup {15},
                                    o \in (0..MaxOff) \cup ((LoSize - 1 - MaxOff)..(LoSize - 1))}
    IN  \E a \in Addrs, T \in Layouts \cup {LayoutOf.Vtx}, k \in 0..MaxIndex :
            /\ last' = Call("add", a, T, k, Ok(AddrAdd(a, k * T.size)))
            /\ UNCHANGED <<segments, ReaderFrame>>

SpecAddr == Init /\ [][VirtAddrAdd]_vars

\* C30: the address of element k >= 0 behind a typed address a has the segment
\* number of a and the segment offset of a plus k times the size of the
\* element; the sum does not carry into the bits above the offset and does not
\* wrap
C30_AddStaysInSegment ==
    last.op = "add" =>
        /\ segment_number(last.out.val) = segment_number(last.addr)
        /\ segment_offset(last.out.val) = segment_offset(last.addr) + (last.count * last.T.size)
        /\ last.out.val.hi = last.addr.hi

=============================================================================
